---- MODULE Spec2Model ----
(***************************************************************************)
(* A model of the maze generator of MAZEDASH (src/maze-generator.ts): the  *)
(* grid, the seeded depth-first carve, the exit repair, the loop injector  *)
(* and the query methods of class MazeGenerator.                           *)
(*                                                                         *)
(* generateMaze is synchronous; it is modelled as a sequence of steps (its *)
(* prologue, one step per iteration of the carve loop, the opening of the  *)
(* exit, one step per iteration of the loop injector, its return) that no  *)
(* other operation can interleave with: every other operation requires     *)
(* pc \in {"idle", "done"}.                                                *)
(*                                                                         *)
(* The placement code and the game server of src/index.ts (players, timers,*)
(* leaderboard, zombie interval) are modelled in the sections that follow  *)
(* the queries.                                                            *)
(***************************************************************************)
EXTENDS Integers, Sequences, FiniteSets, Bags, TLC

\* ------------------------------------------------------------ constants

\* Cells per side.  The source sets 50; the model is checked on a small grid.
MAZE_SIZE == 4

PATH_WIDTH == 4

WALL_HEIGHT == 7

PLATFORM_WIDTH == 10

PLATFORM_DEPTH == 10

FIXED_SEED == 12345

BLOCK_SEED == 54321

\* index.ts: zombies are not spawned this near the entrance or the exit.
ZOMBIE_SPAWN_EXCLUSION_RADIUS == 3

\* index.ts: milliseconds between two zombie hits on one player.
ZOMBIE_DAMAGE_COOLDOWN == 1000

\* index.ts: seconds of oxygen one zombie hit takes.
ZOMBIE_DAMAGE_SECONDS == 5

\* ------------------------------------------------------------ bounds

\* How many stream positions may hold a value that is not in [0, 1/k) for
\* the k it is first scaled by, in the specification Spec (SpecGen draws
\* every stream).
MaxFreeDraws == 1

\* The same budget of freely drawn stream positions, in SpecRegen.
MaxFreeDrawsRegen == 2

\* How many times generateMaze may be called in SpecRegen.
MaxGens == 2

\* How many draws getRandomWalkablePosition may add after a generation.
MaxQueryDraws == 1

\* How many times buildMaze may be called.
MaxBuilds == 1

\* How many createPatternMaze and addRandomPaths calls are made.
MaxEdits == 2

\* The largest count passed to addRandomPaths.
MaxPathCount == 2

\* index.ts: how many zombies spawnZombies spawns (100 in the source).
MAX_ZOMBIES == 2

\* How many entries the potions array may get.
MaxPotions == 2

\* SpecRandom: Math.sin(currentSeed) * 10000 is known in steps of 1 / SineDen.
SineDen == 4

\* SpecRandom: how far seedRandom calls may advance currentSeed past FIXED_SEED.
MaxAdvance == 3

\* The largest excludeRadius passed to getRandomWalkablePosition.
MaxRadius == 3

\* index.ts: how many players join the world in SpecZombies.
MaxPlayers == 2

\* index.ts: how many players join the world in SpecGame.
MaxGamePlayers == 1

\* index.ts: how many entries the leaderboard keeps (10 in the source).
LEADERBOARD_SIZE == 2

\* index.ts: how many completion times are recorded in a session.
MaxRecorded == 3

\* index.ts: the milliseconds between two readings of Date.now() that differ.
ClockStep == 600

\* Stream positions that may take a value other than the least one in the
\* comparison of the page's generateMaze with the game's.
MaxFreeDrawsHtml == 3

\* GoalDetector: the goal entity's sensor and the standalone sensor may each
\* report a player; how many reports are followed per run.
MaxGoalReports == 2

\* index.ts: how many times the clock advances.
MaxClockSteps == 2

VARIABLES
    grid,                   \* this.grid: grid[y][x] is a Cell
    entrance,               \* this.entrance
    exit,                   \* this.exit
    entranceWorldPosition,  \* this.entranceWorldPosition
    currentSeed,            \* the module-level currentSeed
    blockSeed,              \* the module-level blockSeed of the block registry
    pc,                     \* where the MazeGenerator is: "idle" (constructed),
                            \* "carve", "inject" (inside generateMaze), "done"
    stack,                  \* depthFirstSearch's stack
    i,                      \* addExtraConnections' loop counter
    ret,                    \* the last public call and what it returned
    stream,                 \* what is known of x -> frac(sin(x) * 10000)
    free,                   \* stream positions that may still be drawn freely
    gensLeft,               \* generateMaze calls the environment still makes
    builds,                 \* buildMaze calls made
    world,                  \* the chunk lattice: the wall segments buildWalls
                            \* has set blocks for, and the ids they may carry
    built,                  \* what the last buildMaze call started from: the
                            \* block registry's seed and the lattice's walls
    firstLayout,            \* the grid, entrance and exit the first generateMaze
                            \* call left
    html,                   \* maze-visualization.html: its script's currentSeed
                            \* and, inside generateMaze, its grid, exit, stack,
                            \* loop counter and position
    config,                 \* the configured grid size and path width
    edits,                  \* createPatternMaze, addRandomPaths and
                            \* createPathToExit calls made on the grid
    potions,                \* index.ts: the positions in the potions array
    spawns,                 \* the entities spawned in the world at maze positions
    checks,                 \* the positions placeItemSafely passed to isWalkablePath
    connectedPlayers,       \* index.ts: the players in the world
    playerTimers,           \* index.ts: player id -> PlayerTimerState
    playerEntities,         \* the players whose PlayerEntity is spawned
    leaderboardTimes,       \* index.ts: the leaderboard entries
    playerStartingBonuses,  \* index.ts: player id -> starting bonus seconds
    now,                    \* Date.now()
    sent,                   \* the UI messages the last handler sent, in order
    zombieUpdateInterval,   \* spawnZombies: whether the update interval is set
    playerDamageCooldowns,  \* spawnZombies: player id -> time of the last hit
    offset,                 \* player -> displacement to the closest spawned
                            \* zombie, in tenths of a block
    outcomes,               \* history: 'player-won' and 'player-died' messages
                            \* sent to a player since its last spacebar start
    recorded,               \* history: the bag of completion times recorded
    touched,                \* history: player -> the zombies that were within
                            \* collision distance of it, when the last step was
                            \* a zombie update
    checkInterval,          \* setupPotionCollectionSystem: whether the 100 ms
                            \* interval is set
    collected,              \* history: the potions collected, in order, each
                            \* with its entity, the player that got the message
                            \* and the players that could have got it
    reports                 \* history, per player and since its last spacebar
                            \* start: handlePlayerReachedGoal calls, leaderboard
                            \* entries added, bestTime assignments

vars == <<grid, entrance, exit, entranceWorldPosition, currentSeed, blockSeed,
          pc, stack, i, ret, stream, free, gensLeft, builds, world, built, firstLayout,
          html, config, edits, potions, spawns, checks,
          connectedPlayers, playerTimers, playerEntities, leaderboardTimes,
          playerStartingBonuses, now, sent, zombieUpdateInterval,
          playerDamageCooldowns, offset, outcomes, recorded, reports,
          checkInterval, collected, touched>>

\* The state of the maze generator and of the placement code.
mazeVars == <<grid, entrance, exit, entranceWorldPosition, currentSeed, blockSeed,
              pc, stack, i, ret, stream, free, gensLeft, builds, world, built, firstLayout,
              html, config, edits, potions, spawns, checks>>

\* The state of the game server: players, timers, leaderboard, zombies.
gameVars == <<connectedPlayers, playerTimers, playerEntities, leaderboardTimes,
              playerStartingBonuses, now, sent, zombieUpdateInterval,
              playerDamageCooldowns, offset, outcomes, recorded, reports,
              checkInterval, collected, touched>>

Coords == 0 .. (MAZE_SIZE - 1)

Max(a, b) == IF a >= b THEN a ELSE b

Min(a, b) == IF a <= b THEN a ELSE b

Abs(a) == IF a >= 0 THEN a ELSE -a

\* ------------------------------------------------------------ seeded PRNG
(***************************************************************************)
(* seedRandom returns frac(sin(currentSeed) * 10000) and increments        *)
(* currentSeed: a fixed but unknown function of the stream position.  The  *)
(* model determines it lazily: stream[p] = [lo, hi, den] says the value at *)
(* position p lies in [lo/den, hi/den).  Every use in the source has the   *)
(* shape Math.floor(seedRandom() * k); such a use at a position not drawn  *)
(* before may give any j in 0..k-1 and records [j/k, (j+1)/k); at a        *)
(* position drawn before it may give only a j that interval allows.        *)
(***************************************************************************)
RNG == [seed |-> currentSeed, stream |-> stream, free |-> free]

\* The possible values of Math.floor(seedRandom() * k) in rng state r, k >= 1.
FloorRandom(r, k) ==
    IF r.seed \in DOMAIN r.stream
    THEN LET e == r.stream[r.seed]
         IN  {j \in 0 .. (k - 1) :
                Max(e.lo * k, j * e.den) < Min(e.hi * k, (j + 1) * e.den)}
    ELSE {j \in 0 .. (k - 1) : j = 0 \/ r.free # 0}

\* The rng state after Math.floor(seedRandom() * k) gave j: currentSeed++.
seedRandom(r, j, k) ==
    LET known == r.seed \in DOMAIN r.stream
        e     == IF known THEN r.stream[r.seed] ELSE [lo |-> 0, hi |-> 1, den |-> 1]
        lo2   == Max(e.lo * k, j * e.den)
        hi2   == Min(e.hi * k, (j + 1) * e.den)
        e2    == IF lo2 = e.lo * k /\ hi2 = e.hi * k
                 THEN e
                 ELSE [lo |-> lo2, hi |-> hi2, den |-> e.den * k]
    IN  [seed   |-> r.seed + 1,
         stream |-> IF known
                    THEN [r.stream EXCEPT ![r.seed] = e2]
                    ELSE r.stream @@ (r.seed :> [lo |-> j, hi |-> j + 1, den |-> k]),
         free   |-> IF ~known /\ j # 0 /\ r.free > 0 THEN r.free - 1 ELSE r.free]

\* The values x = Math.sin(seed) * 10000 is tried with, in units of
\* 1 / SineDen (x lies in [m / SineDen, (m + 1) / SineDen)): both ends of
\* [-10000, 10000], and values around -1, 0 and 1.
SineProbe ==
    {-10000 * SineDen, -10000 * SineDen + 1, -SineDen - 1, -SineDen, -1,
     0, 1, SineDen - 1, SineDen, 10000 * SineDen - 1}

\* Mutant: x - Math.trunc(x), the fractional part rounding towards zero.
fractionTruncating(m) ==
    m - (IF m < 0 THEN -((-m) \div SineDen) ELSE m \div SineDen) * SineDen

\* x - Math.floor(x) for x in [m / SineDen, (m + 1) / SineDen), in units of
\* 1 / SineDen.
fraction(m) == m - (m \div SineDen) * SineDen

\* One seedRandom() call: Math.sin is a function, so a stream position that
\* was read before gives the x it gave then.
SeedRandom ==
    /\ pc = "idle"
    /\ currentSeed < FIXED_SEED + MaxAdvance
    /\ \E m \in SineProbe :
          /\ currentSeed \in DOMAIN stream => m = stream[currentSeed].sine
          /\ LET value == [lo |-> fraction(m), hi |-> fraction(m) + 1,
                           den |-> SineDen, sine |-> m]
             IN  /\ stream' = IF currentSeed \in DOMAIN stream
                               THEN stream
                               ELSE stream @@ (currentSeed :> value)
                 /\ ret' = [op |-> "seedRandom", seed |-> currentSeed, value |-> value]
    /\ currentSeed' = currentSeed + 1
    /\ UNCHANGED gameVars
    /\ UNCHANGED <<html, config, edits, potions, spawns, checks>>
    /\ UNCHANGED <<grid, entrance, exit, entranceWorldPosition, blockSeed, pc, stack, i,
                   free, gensLeft, builds, world, built, firstLayout>>

\* currentSeed = FIXED_SEED, as the constructor and generateMaze assign it.
Reseed ==
    /\ pc = "idle"
    /\ currentSeed' = FIXED_SEED
    /\ ret' = [op |-> "reseed"]
    /\ UNCHANGED gameVars
    /\ UNCHANGED <<html, config, edits, potions, spawns, checks>>
    /\ UNCHANGED <<grid, entrance, exit, entranceWorldPosition, blockSeed, pc, stack, i,
                   stream, free, gensLeft, builds, world, built, firstLayout>>

\* ------------------------------------------------------------ grid

DIRECTIONS ==
    << [x |-> 0,  y |-> -1, wall |-> "top",    opposite |-> "bottom"],
       [x |-> 1,  y |-> 0,  wall |-> "right",  opposite |-> "left"],
       [x |-> 0,  y |-> 1,  wall |-> "bottom", opposite |-> "top"],
       [x |-> -1, y |-> 0,  wall |-> "left",   opposite |-> "right"] >>

initializeGrid ==
    [y \in Coords |-> [x \in Coords |->
        [x |-> x, y |-> y, visited |-> FALSE,
         walls |-> [top |-> TRUE, right |-> TRUE, bottom |-> TRUE, left |-> TRUE]]]]

isValidCell(x, y) == x >= 0 /\ x < MAZE_SIZE /\ y >= 0 /\ y < MAZE_SIZE

\* ------------------------------------------------------------ exit repair

hasPathToExit(g, ex) ==
    IF isValidCell(ex.x, ex.y) THEN g[ex.y][ex.x].visited ELSE FALSE

\* Mutant: the exit cell is not marked after the loop.
markExitSkipped(g, ex) == g

\* The statements after createPathToExit's loop: mark the exit visited.
markExit(g, ex) ==
    IF isValidCell(ex.x, ex.y) THEN [g EXCEPT ![ex.y][ex.x].visited = TRUE] ELSE g

RECURSIVE createPathToExit(_, _, _, _)
createPathToExit(g, ex, currentX, currentY) ==
    IF ~(currentX # ex.x \/ currentY # ex.y) THEN markExit(g, ex)
    ELSE IF ~isValidCell(currentX, currentY) THEN markExit(g, ex)
    ELSE
      LET g1    == [g EXCEPT ![currentY][currentX].visited = TRUE]
          xDiff == ex.x - currentX
          yDiff == ex.y - currentY
      IN  IF Abs(yDiff) > 0
          THEN IF yDiff > 0
               THEN IF isValidCell(currentX, currentY + 1)
                    THEN createPathToExit(
                           [g1 EXCEPT ![currentY][currentX].walls.bottom = FALSE,
                                      ![currentY + 1][currentX].walls.top = FALSE],
                           ex, currentX, currentY + 1)
                    ELSE markExit(g1, ex)
               ELSE IF isValidCell(currentX, currentY - 1)
                    THEN createPathToExit(
                           [g1 EXCEPT ![currentY][currentX].walls.top = FALSE,
                                      ![currentY - 1][currentX].walls.bottom = FALSE],
                           ex, currentX, currentY - 1)
                    ELSE markExit(g1, ex)
          ELSE IF Abs(xDiff) > 0
          THEN IF xDiff > 0
               THEN IF isValidCell(currentX + 1, currentY)
                    THEN createPathToExit(
                           [g1 EXCEPT ![currentY][currentX].walls.right = FALSE,
                                      ![currentY][currentX + 1].walls.left = FALSE],
                           ex, currentX + 1, currentY)
                    ELSE markExit(g1, ex)
               ELSE IF isValidCell(currentX - 1, currentY)
                    THEN createPathToExit(
                           [g1 EXCEPT ![currentY][currentX].walls.left = FALSE,
                                      ![currentY][currentX - 1].walls.right = FALSE],
                           ex, currentX - 1, currentY)
                    ELSE markExit(g1, ex)
          ELSE markExit(g1, ex)

\* Mutant: the path starts at the visited cell farthest from the exit.
connectToExitFarthest(g, ex) ==
    LET dist(c)  == Abs(c[1] - ex.x) + Abs(c[2] - ex.y)
        seen     == {c \in Coords \X Coords : g[c[2]][c[1]].visited}
        before(c, d) == c[2] < d[2] \/ (c[2] = d[2] /\ c[1] <= d[1])
    IN  IF seen = {} THEN g
        ELSE LET farthest == CHOOSE c \in seen : \A d \in seen :
                               dist(c) > dist(d) \/ (dist(c) = dist(d) /\ before(c, d))
             IN  createPathToExit(g, ex, farthest[1], farthest[2])

\* The visited cell closest to the exit, the first in row-major order on ties.
connectToExit(g, ex) ==
    LET dist(c)  == Abs(c[1] - ex.x) + Abs(c[2] - ex.y)
        seen     == {c \in Coords \X Coords : g[c[2]][c[1]].visited}
        before(c, d) == c[2] < d[2] \/ (c[2] = d[2] /\ c[1] <= d[1])
    IN  IF seen = {} THEN g
        ELSE LET closest == CHOOSE c \in seen : \A d \in seen :
                               dist(c) < dist(d) \/ (dist(c) = dist(d) /\ before(c, d))
             IN  createPathToExit(g, ex, closest[1], closest[2])

\* createPathToExit(x, y), called on the grid as it is, from an in-bounds cell.
CreatePathToExit ==
    /\ pc \in {"idle", "done"}
    /\ edits < MaxEdits
    /\ \E x \in Coords, y \in Coords :
          /\ grid' = createPathToExit(grid, exit, x, y)
          /\ ret' = [op |-> "createPathToExit", x |-> x, y |-> y]
    /\ edits' = edits + 1
    /\ UNCHANGED gameVars
    /\ UNCHANGED <<html, config, potions, spawns, checks>>
    /\ UNCHANGED <<entrance, exit, entranceWorldPosition, currentSeed, blockSeed, pc,
                   stack, i, stream, free, gensLeft, builds, world, built, firstLayout>>

\* ------------------------------------------------------------ generateMaze

\* Mutant: the direction loop stops one short (dirIndex < length - 1).
unvisitedNeighborsSkipLast(g, x, y) ==
    LET cand == [d \in 1 .. 3 |->
                   [x |-> x + DIRECTIONS[d].x, y |-> y + DIRECTIONS[d].y,
                    dirIndex |-> d - 1]]
        ok(n) == isValidCell(n.x, n.y) /\ ~g[n.y][n.x].visited
    IN  SelectSeq(cand, ok)

\* Mutant: the directions are scanned left, bottom, right, top.
unvisitedNeighborsReversed(g, x, y) ==
    LET cand == [d \in 1 .. 4 |->
                   [x |-> x + DIRECTIONS[5 - d].x, y |-> y + DIRECTIONS[5 - d].y,
                    dirIndex |-> 4 - d]]
        ok(n) == isValidCell(n.x, n.y) /\ ~g[n.y][n.x].visited
    IN  SelectSeq(cand, ok)

\* The unvisited in-bounds neighbours of (x, y), in DIRECTIONS order.
unvisitedNeighbors(g, x, y) ==
    LET cand == [d \in 1 .. 4 |->
                   [x |-> x + DIRECTIONS[d].x, y |-> y + DIRECTIONS[d].y,
                    dirIndex |-> d - 1]]
        ok(n) == isValidCell(n.x, n.y) /\ ~g[n.y][n.x].visited
    IN  SelectSeq(cand, ok)

\* Mutant: the neighbour's facing wall is left standing.
carveIntoOneSided(g, x, y, neighbor) ==
    LET dir == DIRECTIONS[neighbor.dirIndex + 1]
    IN  [g EXCEPT ![y][x].walls[dir.wall] = FALSE,
                  ![neighbor.y][neighbor.x].visited = TRUE]

\* Mutant: the chosen neighbour is not marked visited.
carveIntoUnmarked(g, x, y, neighbor) ==
    LET dir == DIRECTIONS[neighbor.dirIndex + 1]
    IN  [g EXCEPT ![y][x].walls[dir.wall] = FALSE,
                  ![neighbor.y][neighbor.x].walls[dir.opposite] = FALSE]

\* Mutant: the wall pair to the right of (x, y) is removed as well.
carveIntoWide(g, x, y, neighbor) ==
    LET dir == DIRECTIONS[neighbor.dirIndex + 1]
        g1  == [g EXCEPT ![y][x].walls[dir.wall] = FALSE,
                         ![neighbor.y][neighbor.x].walls[dir.opposite] = FALSE,
                         ![neighbor.y][neighbor.x].visited = TRUE]
    IN  IF isValidCell(x + 1, y)
        THEN [g1 EXCEPT ![y][x].walls.right = FALSE, ![y][x + 1].walls.left = FALSE]
        ELSE g1

\* Remove the wall pair between (x, y) and the chosen neighbour, mark it visited.
carveInto(g, x, y, neighbor) ==
    LET dir == DIRECTIONS[neighbor.dirIndex + 1]
    IN  [g EXCEPT ![y][x].walls[dir.wall] = FALSE,
                  ![neighbor.y][neighbor.x].walls[dir.opposite] = FALSE,
                  ![neighbor.y][neighbor.x].visited = TRUE]

\* The grid with the entrance's top wall removed (generateMaze, before the carve).
openEntrance(g, startX, startY) ==
    IF isValidCell(startX, startY)
    THEN [g EXCEPT ![startY][startX].walls.top = FALSE]
    ELSE g

\* Mutant: the exit's bottom wall is never removed.
openExitMissing(g, exitX, exitY) == g

\* The grid with the exit's bottom wall removed (generateMaze, after the carve).
openExit(g, exitX, exitY) ==
    IF isValidCell(exitX, exitY)
    THEN [g EXCEPT ![exitY][exitX].walls.bottom = FALSE]
    ELSE g

\* Mutant: the tenth of the cells rounded up.
connectionsToAddRoundedUp == (MAZE_SIZE * MAZE_SIZE + 9) \div 10

connectionsToAdd == (MAZE_SIZE * MAZE_SIZE) \div 10

\* Mutant: the pair is removed only between two visited cells.
addConnectionVisitedOnly(g, x, y, dirIndex) ==
    LET dir   == DIRECTIONS[dirIndex + 1]
        nextX == x + dir.x
        nextY == y + dir.y
    IN  IF isValidCell(nextX, nextY) /\ g[y][x].visited /\ g[nextY][nextX].visited
        THEN [g EXCEPT ![y][x].walls[dir.wall] = FALSE,
                       ![nextY][nextX].walls[dir.opposite] = FALSE]
        ELSE g

\* Mutant: only the drawn cell's wall is removed, not the neighbour's.
addConnectionOneSided(g, x, y, dirIndex) ==
    LET dir   == DIRECTIONS[dirIndex + 1]
        nextX == x + dir.x
        nextY == y + dir.y
    IN  IF isValidCell(nextX, nextY)
        THEN [g EXCEPT ![y][x].walls[dir.wall] = FALSE]
        ELSE g

\* Mutant: the drawn cell's wall is removed before the neighbour is checked.
addConnectionUnchecked(g, x, y, dirIndex) ==
    LET dir   == DIRECTIONS[dirIndex + 1]
        nextX == x + dir.x
        nextY == y + dir.y
        g1    == [g EXCEPT ![y][x].walls[dir.wall] = FALSE]
    IN  IF isValidCell(nextX, nextY)
        THEN [g1 EXCEPT ![nextY][nextX].walls[dir.opposite] = FALSE]
        ELSE g1

\* One attempt of addExtraConnections at cell (x, y) in direction dirIndex.
addConnection(g, x, y, dirIndex) ==
    LET dir   == DIRECTIONS[dirIndex + 1]
        nextX == x + dir.x
        nextY == y + dir.y
    IN  IF isValidCell(nextX, nextY)
        THEN [g EXCEPT ![y][x].walls[dir.wall] = FALSE,
                       ![nextY][nextX].walls[dir.opposite] = FALSE]
        ELSE g

\* Mutant: generateMaze does not reset the seed.
resetSeedMissing == currentSeed

\* generateMaze's first statement: currentSeed = FIXED_SEED.
resetSeed == FIXED_SEED

\* generateMaze without its initializeGrid call.
GenerateMazeNoReset ==
    /\ pc \in {"idle", "done"}
    /\ gensLeft > 0
    /\ LET startX == MAZE_SIZE \div 2
           startY == 0
           exitX  == MAZE_SIZE \div 2
           exitY  == MAZE_SIZE - 1
           g1     == openEntrance(grid, startX, startY)
       IN  /\ currentSeed' = resetSeed
           /\ entrance' = [x |-> startX, y |-> startY]
           /\ exit' = [x |-> exitX, y |-> exitY]
           /\ IF isValidCell(startX, startY)
              THEN /\ grid' = [g1 EXCEPT ![startY][startX].visited = TRUE]
                   /\ stack' = << <<startX, startY>> >>
              ELSE /\ grid' = g1
                   /\ stack' = << >>
    /\ pc' = "carve"
    /\ i' = 0
    /\ gensLeft' = gensLeft - 1
    /\ ret' = [op |-> "generateMaze"]
    /\ UNCHANGED gameVars
    /\ UNCHANGED <<html, config, edits, potions, spawns, checks>>
    /\ UNCHANGED <<entranceWorldPosition, blockSeed, stream, free, builds, world, built, firstLayout>>

\* generateMaze taking the column left of the middle for entrance and exit.
GenerateMazeLeftOfMiddle ==
    /\ pc \in {"idle", "done"}
    /\ gensLeft > 0
    /\ LET startX == (MAZE_SIZE - 1) \div 2
           startY == 0
           exitX  == (MAZE_SIZE - 1) \div 2
           exitY  == MAZE_SIZE - 1
           g1     == openEntrance(initializeGrid, startX, startY)
       IN  /\ currentSeed' = resetSeed
           /\ entrance' = [x |-> startX, y |-> startY]
           /\ exit' = [x |-> exitX, y |-> exitY]
           /\ IF isValidCell(startX, startY)
              THEN /\ grid' = [g1 EXCEPT ![startY][startX].visited = TRUE]
                   /\ stack' = << <<startX, startY>> >>
              ELSE /\ grid' = g1
                   /\ stack' = << >>
    /\ pc' = "carve"
    /\ i' = 0
    /\ gensLeft' = gensLeft - 1
    /\ ret' = [op |-> "generateMaze"]
    /\ UNCHANGED gameVars
    /\ UNCHANGED <<html, config, edits, potions, spawns, checks>>
    /\ UNCHANGED <<entranceWorldPosition, blockSeed, stream, free, builds, world, built, firstLayout>>

\* generateMaze up to the first iteration of depthFirstSearch's loop.
GenerateMaze ==
    /\ pc \in {"idle", "done"}
    /\ gensLeft > 0
    /\ LET startX == MAZE_SIZE \div 2
           startY == 0
           exitX  == MAZE_SIZE \div 2
           exitY  == MAZE_SIZE - 1
           g1     == openEntrance(initializeGrid, startX, startY)
       IN  /\ currentSeed' = resetSeed
           /\ entrance' = [x |-> startX, y |-> startY]
           /\ exit' = [x |-> exitX, y |-> exitY]
           /\ IF isValidCell(startX, startY)
              THEN /\ grid' = [g1 EXCEPT ![startY][startX].visited = TRUE]
                   /\ stack' = << <<startX, startY>> >>
              ELSE /\ grid' = g1
                   /\ stack' = << >>
    /\ pc' = "carve"
    /\ i' = 0
    /\ gensLeft' = gensLeft - 1
    /\ ret' = [op |-> "generateMaze"]
    /\ UNCHANGED gameVars
    /\ UNCHANGED <<html, config, edits, potions, spawns, checks>>
    /\ UNCHANGED <<entranceWorldPosition, blockSeed, stream, free, builds, world, built, firstLayout>>

\* One iteration of depthFirstSearch's while loop.
CarveStep ==
    /\ pc = "carve"
    /\ Len(stack) > 0
    /\ LET x == stack[Len(stack)][1]
           y == stack[Len(stack)][2]
           neighbors == unvisitedNeighbors(grid, x, y)
       IN  IF Len(neighbors) > 0
           THEN \E neighborIndex \in FloorRandom(RNG, Len(neighbors)) :
                  LET neighbor == neighbors[neighborIndex + 1]
                      r        == seedRandom(RNG, neighborIndex, Len(neighbors))
                  IN  /\ grid' = carveInto(grid, x, y, neighbor)
                      /\ stack' = Append(stack, <<neighbor.x, neighbor.y>>)
                      /\ currentSeed' = r.seed
                      /\ stream' = r.stream
                      /\ free' = r.free
           ELSE /\ stack' = SubSeq(stack, 1, Len(stack) - 1)
                /\ grid' = IF Len(stack) = 1 /\ ~hasPathToExit(grid, exit)
                           THEN connectToExit(grid, exit)
                           ELSE grid
                /\ UNCHANGED <<currentSeed, stream, free>>
    /\ UNCHANGED gameVars
    /\ UNCHANGED <<html, config, edits, potions, spawns, checks>>
    /\ UNCHANGED <<entrance, exit, entranceWorldPosition, blockSeed, pc, i, ret,
                   gensLeft, builds, world, built, firstLayout>>

\* Mutant: the seed is reset again between the carve and the loop injector.
CarveDoneReseeding ==
    /\ pc = "carve"
    /\ Len(stack) = 0
    /\ grid' = openExit(grid, exit.x, exit.y)
    /\ pc' = "inject"
    /\ i' = 0
    /\ currentSeed' = FIXED_SEED
    /\ UNCHANGED gameVars
    /\ UNCHANGED <<html, config, edits, potions, spawns, checks>>
    /\ UNCHANGED <<entrance, exit, entranceWorldPosition, blockSeed,
                   stack, ret, stream, free, gensLeft, builds, world, built, firstLayout>>

\* depthFirstSearch returns; generateMaze opens the exit's bottom wall.
CarveDone ==
    /\ pc = "carve"
    /\ Len(stack) = 0
    /\ grid' = openExit(grid, exit.x, exit.y)
    /\ pc' = "inject"
    /\ i' = 0
    /\ UNCHANGED gameVars
    /\ UNCHANGED <<html, config, edits, potions, spawns, checks>>
    /\ UNCHANGED <<entrance, exit, entranceWorldPosition, currentSeed, blockSeed,
                   stack, ret, stream, free, gensLeft, builds, world, built, firstLayout>>

\* One iteration of addExtraConnections' for loop.
ExtraConnection ==
    /\ pc = "inject"
    /\ i < connectionsToAdd
    /\ \E x \in FloorRandom(RNG, MAZE_SIZE) :
         LET r1 == seedRandom(RNG, x, MAZE_SIZE)
         IN  \E y \in FloorRandom(r1, MAZE_SIZE) :
               LET r2 == seedRandom(r1, y, MAZE_SIZE)
               IN  IF ~isValidCell(x, y)
                   THEN /\ grid' = grid
                        /\ currentSeed' = r2.seed
                        /\ stream' = r2.stream
                        /\ free' = r2.free
                   ELSE \E dirIndex \in FloorRandom(r2, Len(DIRECTIONS)) :
                          LET r3 == seedRandom(r2, dirIndex, Len(DIRECTIONS))
                          IN  /\ grid' = addConnection(grid, x, y, dirIndex)
                              /\ currentSeed' = r3.seed
                              /\ stream' = r3.stream
                              /\ free' = r3.free
    /\ i' = i + 1
    /\ UNCHANGED gameVars
    /\ UNCHANGED <<html, config, edits, potions, spawns, checks>>
    /\ UNCHANGED <<entrance, exit, entranceWorldPosition, blockSeed, pc, stack, ret,
                   gensLeft, builds, world, built, firstLayout>>

\* addExtraConnections and generateMaze return.
GenerateDone ==
    /\ pc = "inject"
    /\ i >= connectionsToAdd
    /\ pc' = "done"
    /\ firstLayout' = IF firstLayout = << >> THEN <<grid, entrance, exit>>
                                             ELSE firstLayout
    /\ UNCHANGED gameVars
    /\ UNCHANGED <<html, config, edits, potions, spawns, checks>>
    /\ UNCHANGED <<grid, entrance, exit, entranceWorldPosition, currentSeed, blockSeed,
                   stack, i, ret, stream, free, gensLeft, builds, world, built>>

\* ------------------------------------------------------------ maze-visualization.html
(***************************************************************************)
(* The page's script has its own currentSeed and its own copies of the     *)
(* grid functions; Math.sin is the same function in the page and in the    *)
(* game, so both read the same stream.  Its isValidCell, neighbour scan,   *)
(* carve, hasPathToExit, connectToExit, createPathToExit and connection    *)
(* statements are those of the class, on a grid passed as an argument; its *)
(* generateMaze and the end of its depthFirstSearch differ and are         *)
(* modelled step by step below.  The page is followed once the game's      *)
(* generateMaze has returned: the two share nothing but the stream.        *)
(***************************************************************************)

\* The script loaded, generateMaze not called yet.
HtmlLoaded ==
    [pc |-> "idle", currentSeed |-> FIXED_SEED, grid |-> << >>,
     exit |-> [x |-> 0, y |-> 0], stack |-> << >>, i |-> 0]

HtmlRNG == [seed |-> html.currentSeed, stream |-> stream, free |-> free]

\* Mutant: the page leaves the exit's bottom wall standing.
HtmlGenerateMazeExitClosed ==
    /\ pc = "done"
    /\ html.pc = "idle"
    /\ LET startX == MAZE_SIZE \div 2
           startY == 0
           exitX  == MAZE_SIZE \div 2
           exitY  == MAZE_SIZE - 1
           g1     == openEntrance(initializeGrid, startX, startY)
       IN  html' = [pc          |-> "carve",
                    currentSeed |-> FIXED_SEED,
                    exit        |-> [x |-> exitX, y |-> exitY],
                    grid        |-> IF isValidCell(startX, startY)
                                    THEN [g1 EXCEPT ![startY][startX].visited = TRUE]
                                    ELSE g1,
                    stack       |-> IF isValidCell(startX, startY)
                                    THEN << <<startX, startY>> >>
                                    ELSE << >>,
                    i           |-> 0]
    /\ UNCHANGED gameVars
    /\ UNCHANGED <<config, edits, potions, spawns, checks>>
    /\ UNCHANGED <<grid, entrance, exit, entranceWorldPosition, currentSeed, blockSeed,
                   pc, stack, i, ret, stream, free, gensLeft, builds, world, built,
                   firstLayout>>

\* generateMaze of the page up to the first iteration of depthFirstSearch's
\* loop: seed reset, new grid, entrance and exit opened, start cell visited
\* and pushed.
HtmlGenerateMaze ==
    /\ pc = "done"
    /\ html.pc = "idle"
    /\ LET startX == MAZE_SIZE \div 2
           startY == 0
           exitX  == MAZE_SIZE \div 2
           exitY  == MAZE_SIZE - 1
           g1     == openEntrance(initializeGrid, startX, startY)
           g2     == openExit(g1, exitX, exitY)
       IN  html' = [pc          |-> "carve",
                    currentSeed |-> FIXED_SEED,
                    exit        |-> [x |-> exitX, y |-> exitY],
                    grid        |-> IF isValidCell(startX, startY)
                                    THEN [g2 EXCEPT ![startY][startX].visited = TRUE]
                                    ELSE g2,
                    stack       |-> IF isValidCell(startX, startY)
                                    THEN << <<startX, startY>> >>
                                    ELSE << >>,
                    i           |-> 0]
    /\ UNCHANGED gameVars
    /\ UNCHANGED <<config, edits, potions, spawns, checks>>
    /\ UNCHANGED <<grid, entrance, exit, entranceWorldPosition, currentSeed, blockSeed,
                   pc, stack, i, ret, stream, free, gensLeft, builds, world, built,
                   firstLayout>>

\* One iteration of the while loop of the page's depthFirstSearch.
HtmlCarveStep ==
    /\ html.pc = "carve"
    /\ Len(html.stack) > 0
    /\ LET x == html.stack[Len(html.stack)][1]
           y == html.stack[Len(html.stack)][2]
           neighbors == unvisitedNeighbors(html.grid, x, y)
       IN  IF Len(neighbors) > 0
           THEN \E neighborIndex \in FloorRandom(HtmlRNG, Len(neighbors)) :
                  LET neighbor == neighbors[neighborIndex + 1]
                      r        == seedRandom(HtmlRNG, neighborIndex, Len(neighbors))
                  IN  /\ html' = [html EXCEPT
                                    !.grid = carveInto(html.grid, x, y, neighbor),
                                    !.stack = Append(html.stack, <<neighbor.x, neighbor.y>>),
                                    !.currentSeed = r.seed]
                      /\ stream' = r.stream
                      /\ free' = r.free
           ELSE /\ html' = [html EXCEPT
                              !.stack = SubSeq(html.stack, 1, Len(html.stack) - 1)]
                /\ UNCHANGED <<stream, free>>
    /\ UNCHANGED gameVars
    /\ UNCHANGED <<config, edits, potions, spawns, checks>>
    /\ UNCHANGED <<grid, entrance, exit, entranceWorldPosition, currentSeed, blockSeed,
                   pc, stack, i, ret, gensLeft, builds, world, built, firstLayout>>

\* The page's depthFirstSearch returns; generateMaze runs the repair check.
HtmlCarveDone ==
    /\ html.pc = "carve"
    /\ Len(html.stack) = 0
    /\ html' = [html EXCEPT
                  !.grid = IF ~hasPathToExit(html.grid, html.exit)
                           THEN connectToExit(html.grid, html.exit)
                           ELSE html.grid,
                  !.pc = "inject",
                  !.i = 0]
    /\ UNCHANGED gameVars
    /\ UNCHANGED <<config, edits, potions, spawns, checks>>
    /\ UNCHANGED <<grid, entrance, exit, entranceWorldPosition, currentSeed, blockSeed,
                   pc, stack, i, ret, stream, free, gensLeft, builds, world, built,
                   firstLayout>>

\* One iteration of the for loop of the page's addExtraConnections.
HtmlExtraConnection ==
    /\ html.pc = "inject"
    /\ html.i < connectionsToAdd
    /\ \E x \in FloorRandom(HtmlRNG, MAZE_SIZE) :
         LET r1 == seedRandom(HtmlRNG, x, MAZE_SIZE)
         IN  \E y \in FloorRandom(r1, MAZE_SIZE) :
               LET r2 == seedRandom(r1, y, MAZE_SIZE)
               IN  IF ~isValidCell(x, y)
                   THEN /\ html' = [html EXCEPT !.currentSeed = r2.seed,
                                                !.i = html.i + 1]
                        /\ stream' = r2.stream
                        /\ free' = r2.free
                   ELSE \E dirIndex \in FloorRandom(r2, Len(DIRECTIONS)) :
                          LET r3 == seedRandom(r2, dirIndex, Len(DIRECTIONS))
                          IN  /\ html' = [html EXCEPT
                                            !.grid = addConnection(html.grid, x, y, dirIndex),
                                            !.currentSeed = r3.seed,
                                            !.i = html.i + 1]
                              /\ stream' = r3.stream
                              /\ free' = r3.free
    /\ UNCHANGED gameVars
    /\ UNCHANGED <<config, edits, potions, spawns, checks>>
    /\ UNCHANGED <<grid, entrance, exit, entranceWorldPosition, currentSeed, blockSeed,
                   pc, stack, i, ret, gensLeft, builds, world, built, firstLayout>>

\* The page's addExtraConnections and generateMaze return.
HtmlGenerateDone ==
    /\ html.pc = "inject"
    /\ html.i >= connectionsToAdd
    /\ html' = [html EXCEPT !.pc = "done"]
    /\ UNCHANGED gameVars
    /\ UNCHANGED <<config, edits, potions, spawns, checks>>
    /\ UNCHANGED <<grid, entrance, exit, entranceWorldPosition, currentSeed, blockSeed,
                   pc, stack, i, ret, stream, free, gensLeft, builds, world, built,
                   firstLayout>>

\* ------------------------------------------------------------ pattern maze

\* createPatternMaze's zig-zag loop from row on, the path being in column
\* currentCol: the grid it leaves and the column it ends in.
RECURSIVE patternRows(_, _, _)
patternRows(g, row, currentCol) ==
    IF row >= MAZE_SIZE - 1
    THEN [grid |-> g, col |-> currentCol]
    ELSE LET nextCol == IF row % 2 = 0
                        THEN Min(currentCol + 1, MAZE_SIZE - 1)
                        ELSE Max(currentCol - 1, 0)
             g1 == [g EXCEPT ![row][currentCol].visited = TRUE]
             g2 == IF nextCol > currentCol
                   THEN [g1 EXCEPT ![row][currentCol].walls.right = FALSE,
                                   ![row][nextCol].walls.left = FALSE]
                   ELSE IF nextCol < currentCol
                   THEN [g1 EXCEPT ![row][currentCol].walls.left = FALSE,
                                   ![row][nextCol].walls.right = FALSE]
                   ELSE g1
             g3 == [g2 EXCEPT ![row][currentCol].walls.bottom = FALSE,
                              ![row + 1][currentCol].walls.top = FALSE]
         IN  patternRows(g3, row + 1, nextCol)

\* createPatternMaze's horizontal connection along the last row, from col
\* to exitCol.
RECURSIVE patternLastRow(_, _, _)
patternLastRow(g, col, exitCol) ==
    IF col = exitCol
    THEN g
    ELSE LET lastRow   == MAZE_SIZE - 1
             direction == IF col < exitCol THEN 1 ELSE -1
             g1 == [g EXCEPT ![lastRow][col].visited = TRUE]
             g2 == IF direction > 0
                   THEN [g1 EXCEPT ![lastRow][col].walls.right = FALSE,
                                   ![lastRow][col + direction].walls.left = FALSE]
                   ELSE [g1 EXCEPT ![lastRow][col].walls.left = FALSE,
                                   ![lastRow][col + direction].walls.right = FALSE]
         IN  patternLastRow(g2, col + direction, exitCol)

createPatternMaze(g) ==
    LET entranceCol == MAZE_SIZE \div 2
        exitCol     == MAZE_SIZE \div 2
        zigzag      == patternRows(g, 0, entranceCol)
    IN  patternLastRow(zigzag.grid, zigzag.col, exitCol)

\* One iteration of addRandomPaths' loop, for the three values Math.random
\* gave: the left branch clears cellLeft.walls.left, as line 654 does.
addRandomPath(g, row, col, wallToRemove) ==
    IF wallToRemove = 0 /\ row > 0
    THEN [g EXCEPT ![row][col].walls.top = FALSE,
                   ![row - 1][col].walls.bottom = FALSE]
    ELSE IF wallToRemove = 1 /\ col < MAZE_SIZE - 1
    THEN [g EXCEPT ![row][col].walls.right = FALSE,
                   ![row][col + 1].walls.left = FALSE]
    ELSE IF wallToRemove = 2 /\ row < MAZE_SIZE - 1
    THEN [g EXCEPT ![row][col].walls.bottom = FALSE,
                   ![row + 1][col].walls.top = FALSE]
    ELSE IF wallToRemove = 3 /\ col > 0
    THEN [g EXCEPT ![row][col].walls.left = FALSE,
                   ![row][col - 1].walls.left = FALSE]
    ELSE g

\* The grids addRandomPaths(count) can leave, starting from a grid of gs.
RECURSIVE addRandomPaths(_, _)
addRandomPaths(gs, count) ==
    IF count <= 0
    THEN gs
    ELSE addRandomPaths(
            {addRandomPath(g, row, col, wallToRemove) :
                g \in gs, row \in 0 .. (MAZE_SIZE - 2), col \in 0 .. (MAZE_SIZE - 2),
                wallToRemove \in 0 .. 3},
            count - 1)

CreatePatternMaze ==
    /\ pc \in {"idle", "done"}
    /\ edits < MaxEdits
    /\ grid' = createPatternMaze(grid)
    /\ edits' = edits + 1
    /\ ret' = [op |-> "createPatternMaze"]
    /\ UNCHANGED gameVars
    /\ UNCHANGED <<html, config, potions, spawns, checks>>
    /\ UNCHANGED <<entrance, exit, entranceWorldPosition, currentSeed, blockSeed, pc,
                   stack, i, stream, free, gensLeft, builds, world, built, firstLayout>>

AddRandomPaths ==
    /\ pc \in {"idle", "done"}
    /\ edits < MaxEdits
    /\ \E count \in 0 .. MaxPathCount :
          /\ grid' \in addRandomPaths({grid}, count)
          /\ ret' = [op |-> "addRandomPaths", count |-> count]
    /\ edits' = edits + 1
    /\ UNCHANGED gameVars
    /\ UNCHANGED <<html, config, potions, spawns, checks>>
    /\ UNCHANGED <<entrance, exit, entranceWorldPosition, currentSeed, blockSeed, pc,
                   stack, i, stream, free, gensLeft, builds, world, built, firstLayout>>

\* ------------------------------------------------------------ world building

\* blockSeed after one getRandomWallBlockId call: the reset every 1000, then ++.
nextBlockSeed(b) == (IF b % 1000 = 0 THEN BLOCK_SEED ELSE b) + 1

\* The wall flags that are present: buildWalls sets PATH_WIDTH * WALL_HEIGHT
\* blocks for each, with one getRandomWallBlockId call per block.
wallFlags(g) ==
    {w \in (Coords \X Coords) \X {"top", "right", "bottom", "left"} :
        g[w[1][2]][w[1][1]].walls[w[2]]}

\* The wall palette of the block registry.
MAZE_WALL_BLOCK_IDS == <<100, 102, 103, 104>>

\* getRandomWallBlockId when seedRandomBlock returns k / SineDen: the index
\* is floored, clamped by the modulo, and an undefined entry is replaced by
\* the first id.
getRandomWallBlockId(k) ==
    LET randomIndex == (k * Len(MAZE_WALL_BLOCK_IDS)) \div SineDen
        id == MAZE_WALL_BLOCK_IDS[(randomIndex % Len(MAZE_WALL_BLOCK_IDS)) + 1]
    IN  IF id = 0 THEN MAZE_WALL_BLOCK_IDS[1] ELSE id

\* The ids one getRandomWallBlockId call may return: seedRandomBlock's value
\* frac(sin(blockSeed) * 10000) is any value of [0, 1).
wallBlockIds == {getRandomWallBlockId(k) : k \in 0 .. (SineDen - 1)}

\* Mutant: the walls start at the floor's height.
wallBlocksFromGround(gridX, gridY, wall) ==
    LET baseX == gridX * PATH_WIDTH
        baseZ == gridY * PATH_WIDTH
    IN  CASE wall = "top" ->
               {<<baseX + x, y, baseZ>> :
                    x \in 0 .. (PATH_WIDTH - 1), y \in 0 .. WALL_HEIGHT}
          [] wall = "right" ->
               {<<baseX + PATH_WIDTH, y, baseZ + z>> :
                    z \in 0 .. (PATH_WIDTH - 1), y \in 0 .. WALL_HEIGHT}
          [] wall = "bottom" ->
               {<<baseX + x, y, baseZ + PATH_WIDTH>> :
                    x \in 0 .. (PATH_WIDTH - 1), y \in 0 .. WALL_HEIGHT}
          [] wall = "left" ->
               {<<baseX, y, baseZ + z>> :
                    z \in 0 .. (PATH_WIDTH - 1), y \in 0 .. WALL_HEIGHT}

\* Mutant: the right and bottom walls stand on the cell's last block column.
wallBlocksInside(gridX, gridY, wall) ==
    LET baseX == gridX * PATH_WIDTH
        baseZ == gridY * PATH_WIDTH
    IN  CASE wall = "top" ->
               {<<baseX + x, y, baseZ>> :
                    x \in 0 .. (PATH_WIDTH - 1), y \in 1 .. WALL_HEIGHT}
          [] wall = "right" ->
               {<<baseX + PATH_WIDTH - 1, y, baseZ + z>> :
                    z \in 0 .. (PATH_WIDTH - 1), y \in 1 .. WALL_HEIGHT}
          [] wall = "bottom" ->
               {<<baseX + x, y, baseZ + PATH_WIDTH - 1>> :
                    x \in 0 .. (PATH_WIDTH - 1), y \in 1 .. WALL_HEIGHT}
          [] wall = "left" ->
               {<<baseX, y, baseZ + z>> :
                    z \in 0 .. (PATH_WIDTH - 1), y \in 1 .. WALL_HEIGHT}

\* The positions <<x, y, z>> of the setBlock calls buildWalls makes for one
\* wall flag of cell (gridX, gridY).
wallBlocks(gridX, gridY, wall) ==
    LET baseX == gridX * PATH_WIDTH
        baseZ == gridY * PATH_WIDTH
    IN  CASE wall = "top" ->
               {<<baseX + x, y, baseZ>> :
                    x \in 0 .. (PATH_WIDTH - 1), y \in 1 .. WALL_HEIGHT}
          [] wall = "right" ->
               {<<baseX + PATH_WIDTH, y, baseZ + z>> :
                    z \in 0 .. (PATH_WIDTH - 1), y \in 1 .. WALL_HEIGHT}
          [] wall = "bottom" ->
               {<<baseX + x, y, baseZ + PATH_WIDTH>> :
                    x \in 0 .. (PATH_WIDTH - 1), y \in 1 .. WALL_HEIGHT}
          [] wall = "left" ->
               {<<baseX, y, baseZ + z>> :
                    z \in 0 .. (PATH_WIDTH - 1), y \in 1 .. WALL_HEIGHT}

\* The world after buildWalls: every present wall flag of every cell has its
\* blocks set, each with an id getRandomWallBlockId returned.  The lattice
\* keeps the wall segments the setBlock calls were made for; setBlocks gives
\* their positions.
buildWalls(g, w) ==
    [walls |-> w.walls \cup wallFlags(g),
     ids   |-> IF wallFlags(g) = {} THEN w.ids ELSE w.ids \cup wallBlockIds]

\* The positions <<x, y, z>> that hold a wall block in the lattice w: those of
\* the setBlock calls made for each of its wall segments.
setBlocks(w) ==
    UNION {wallBlocks(f[1][1], f[1][2], f[2]) : f \in w.walls}

\* blockSeed after n getRandomWallBlockId calls.  From BLOCK_SEED the seed
\* walks BLOCK_SEED + 1 .. 55000 and, reset at 55000, starts over.
blockSeedAfter(b, n) ==
    LET top    == ((BLOCK_SEED \div 1000) + 1) * 1000
        period == top - BLOCK_SEED
    IN  IF n = 0 THEN b
        ELSE IF b >= BLOCK_SEED /\ b <= top
             THEN BLOCK_SEED + 1 + ((b - BLOCK_SEED + n - 1) % period)
             ELSE nextBlockSeed(b) + (n - 1)

\* Mutant: the wall block ids are drawn from the maze's stream.
seedAfterBuildShared(n) == currentSeed + n

\* currentSeed after buildMaze made n getRandomWallBlockId calls: they draw
\* from seedRandomBlock, the block registry's own stream.
seedAfterBuild(n) == currentSeed

\* buildMaze clearing each wall flag once its blocks are placed.
BuildMazeConsumesWalls ==
    /\ pc \in {"idle", "done"}
    /\ builds < MaxBuilds
    /\ entranceWorldPosition' = [entranceWorldPosition EXCEPT !.y = 1]
    /\ blockSeed' = blockSeedAfter(blockSeed,
                        Cardinality(wallFlags(grid)) * PATH_WIDTH * WALL_HEIGHT)
    /\ currentSeed' = seedAfterBuild(
                        Cardinality(wallFlags(grid)) * PATH_WIDTH * WALL_HEIGHT)
    /\ builds' = builds + 1
    /\ world' = buildWalls(grid, world)
    /\ built' = [seed |-> blockSeed, walls |-> world.walls]
    /\ ret' = [op |-> "buildMaze"]
    /\ grid' = [y \in Coords |-> [x \in Coords |->
                  [grid[y][x] EXCEPT !.walls = [top |-> FALSE, right |-> FALSE,
                                                bottom |-> FALSE, left |-> FALSE]]]]
    /\ UNCHANGED gameVars
    /\ UNCHANGED <<html, config, edits, potions, spawns, checks>>
    /\ UNCHANGED <<entrance, exit, pc, stack, i, stream, free, gensLeft, firstLayout>>

BuildMaze ==
    /\ pc \in {"idle", "done"}
    /\ builds < MaxBuilds
    /\ entranceWorldPosition' = [entranceWorldPosition EXCEPT !.y = 1]
    /\ blockSeed' = blockSeedAfter(blockSeed,
                        Cardinality(wallFlags(grid)) * PATH_WIDTH * WALL_HEIGHT)
    /\ currentSeed' = seedAfterBuild(
                        Cardinality(wallFlags(grid)) * PATH_WIDTH * WALL_HEIGHT)
    /\ builds' = builds + 1
    /\ world' = buildWalls(grid, world)
    /\ built' = [seed |-> blockSeed, walls |-> world.walls]
    /\ ret' = [op |-> "buildMaze"]
    /\ UNCHANGED gameVars
    /\ UNCHANGED <<html, config, edits, potions, spawns, checks>>
    /\ UNCHANGED <<grid, entrance, exit, pc, stack, i, stream, free,
                   gensLeft, firstLayout>>

\* ------------------------------------------------------------ queries

\* Mutant: getEntrance caches the height of the base plate, not the height
\* buildMaze caches.
getEntranceAtPlateHeight ==
    [x |-> entrance.x * PATH_WIDTH + PATH_WIDTH \div 2,
     y |-> 0,
     z |-> -(PLATFORM_DEPTH \div 2)]

getEntrance ==
    [x |-> entrance.x * PATH_WIDTH + PATH_WIDTH \div 2,
     y |-> 1,
     z |-> -(PLATFORM_DEPTH \div 2)]

getExit ==
    [x |-> exit.x * PATH_WIDTH + PATH_WIDTH \div 2,
     y |-> 1,
     z |-> MAZE_SIZE * PATH_WIDTH + PLATFORM_DEPTH \div 2]

\* this.grid[gridZ]?.[gridX]?.visited || false
isWalkableCell(g, gridX, gridZ) ==
    IF gridZ \in DOMAIN g /\ gridX \in DOMAIN g[gridZ]
    THEN g[gridZ][gridX].visited
    ELSE FALSE

\* Mutant: the two axes are swapped in the grid lookup.
isWalkablePathSwapped(g, worldX, worldY, worldZ) ==
    IF worldZ < 0 \/ worldZ >= MAZE_SIZE * PATH_WIDTH
    THEN TRUE
    ELSE LET gridX == worldX \div PATH_WIDTH
             gridZ == worldZ \div PATH_WIDTH
         IN  isValidCell(gridX, gridZ) /\ isWalkableCell(g, gridZ, gridX)

\* Mutant: the column is found by truncating towards zero, not by flooring.
isWalkablePathTruncating(g, worldX, worldY, worldZ) ==
    IF worldZ < 0 \/ worldZ >= MAZE_SIZE * PATH_WIDTH
    THEN TRUE
    ELSE LET gridX == IF worldX < 0 THEN -((-worldX) \div PATH_WIDTH)
                                    ELSE worldX \div PATH_WIDTH
             gridZ == worldZ \div PATH_WIDTH
         IN  isValidCell(gridX, gridZ) /\ isWalkableCell(g, gridX, gridZ)

isWalkablePath(g, worldX, worldY, worldZ) ==
    IF worldZ < 0 \/ worldZ >= MAZE_SIZE * PATH_WIDTH
    THEN TRUE
    ELSE LET gridX == worldX \div PATH_WIDTH
             gridZ == worldZ \div PATH_WIDTH
         IN  isValidCell(gridX, gridZ) /\ isWalkableCell(g, gridX, gridZ)

getCellCenter(ewp, gridX, gridZ) ==
    [x |-> gridX * PATH_WIDTH + PATH_WIDTH \div 2,
     y |-> ewp.y + 1,
     z |-> gridZ * PATH_WIDTH + PATH_WIDTH \div 2]

\* Mutant: the loops are nested the other way round, x outer and z inner.
rowMajorColumnsFirst ==
    [k \in 1 .. (MAZE_SIZE * MAZE_SIZE) |->
        [x |-> (k - 1) \div MAZE_SIZE, z |-> (k - 1) % MAZE_SIZE]]

\* Every cell as {x, z}, in the order of the nested loops: z outer, x inner.
rowMajor ==
    [k \in 1 .. (MAZE_SIZE * MAZE_SIZE) |->
        [x |-> (k - 1) % MAZE_SIZE, z |-> (k - 1) \div MAZE_SIZE]]

getAllWalkableCells(g) ==
    LET walkable(c) == isWalkableCell(g, c.x, c.z)
    IN  SelectSeq(rowMajor, walkable)

\* Mutant: only the distance from the entrance is tested.
eligibleCellsEntranceOnly(g, en, ex, excludeRadius) ==
    LET walkableCells == getAllWalkableCells(g)
        far(cell) == Abs(cell.x - en.x) + Abs(cell.z - en.y) > excludeRadius
        filtered == IF excludeRadius > 0
                    THEN SelectSeq(walkableCells, far)
                    ELSE walkableCells
    IN  IF Len(filtered) = 0 THEN walkableCells ELSE filtered

\* Mutant: no fallback to all walkable cells when the filter leaves none.
eligibleCellsNoFallback(g, en, ex, excludeRadius) ==
    LET walkableCells == getAllWalkableCells(g)
        far(cell) ==
            LET distFromEntrance == Abs(cell.x - en.x) + Abs(cell.z - en.y)
                distFromExit     == Abs(cell.x - ex.x) + Abs(cell.z - ex.y)
            IN  distFromEntrance > excludeRadius /\ distFromExit > excludeRadius
    IN  IF excludeRadius > 0 THEN SelectSeq(walkableCells, far) ELSE walkableCells

\* The cells getRandomWalkablePosition picks from.
eligibleCells(g, en, ex, excludeRadius) ==
    LET walkableCells == getAllWalkableCells(g)
        far(cell) ==
            LET distFromEntrance == Abs(cell.x - en.x) + Abs(cell.z - en.y)
                distFromExit     == Abs(cell.x - ex.x) + Abs(cell.z - ex.y)
            IN  distFromEntrance > excludeRadius /\ distFromExit > excludeRadius
        filtered == IF excludeRadius > 0
                    THEN SelectSeq(walkableCells, far)
                    ELSE walkableCells
    IN  IF Len(filtered) = 0 THEN walkableCells ELSE filtered

\* The world coordinates the IsWalkablePath action probes: one block before
\* the grid, the middle of the middle cell, one block after the grid.
WorldProbe ==
    {-1, (MAZE_SIZE \div 2) * PATH_WIDTH + PATH_WIDTH \div 2, MAZE_SIZE * PATH_WIDTH}

\* The grid coordinates the GetCellCenter action probes.
CellProbe == {0, MAZE_SIZE - 1}

Idle == pc \in {"idle", "done"}

GetEntrance ==
    /\ Idle
    /\ entranceWorldPosition' = getEntrance
    /\ ret' = [op |-> "getEntrance", value |-> getEntrance]
    /\ UNCHANGED gameVars
    /\ UNCHANGED <<html, config, edits, potions, spawns, checks>>
    /\ UNCHANGED <<grid, entrance, exit, currentSeed, blockSeed, pc, stack, i, stream,
                   free, gensLeft, builds, world, built, firstLayout>>

GetExit ==
    /\ Idle
    /\ ret' = [op |-> "getExit", value |-> getExit]
    /\ UNCHANGED gameVars
    /\ UNCHANGED <<html, config, edits, potions, spawns, checks>>
    /\ UNCHANGED <<grid, entrance, exit, entranceWorldPosition, currentSeed, blockSeed,
                   pc, stack, i, stream, free, gensLeft, builds, world, built, firstLayout>>

IsWalkablePath ==
    /\ Idle
    /\ \E worldX \in WorldProbe, worldZ \in WorldProbe :
          ret' = [op |-> "isWalkablePath", x |-> worldX, z |-> worldZ,
                  value |-> isWalkablePath(grid, worldX, 1, worldZ)]
    /\ UNCHANGED gameVars
    /\ UNCHANGED <<html, config, edits, potions, spawns, checks>>
    /\ UNCHANGED <<grid, entrance, exit, entranceWorldPosition, currentSeed, blockSeed,
                   pc, stack, i, stream, free, gensLeft, builds, world, built, firstLayout>>

GetCellCenter ==
    /\ Idle
    /\ \E gridX \in CellProbe, gridZ \in CellProbe :
          ret' = [op |-> "getCellCenter", x |-> gridX, z |-> gridZ,
                  value |-> getCellCenter(entranceWorldPosition, gridX, gridZ)]
    /\ UNCHANGED gameVars
    /\ UNCHANGED <<html, config, edits, potions, spawns, checks>>
    /\ UNCHANGED <<grid, entrance, exit, entranceWorldPosition, currentSeed, blockSeed,
                   pc, stack, i, stream, free, gensLeft, builds, world, built, firstLayout>>

GetAllWalkableCells ==
    /\ Idle
    /\ ret' = [op |-> "getAllWalkableCells", value |-> getAllWalkableCells(grid)]
    /\ UNCHANGED gameVars
    /\ UNCHANGED <<html, config, edits, potions, spawns, checks>>
    /\ UNCHANGED <<grid, entrance, exit, entranceWorldPosition, currentSeed, blockSeed,
                   pc, stack, i, stream, free, gensLeft, builds, world, built, firstLayout>>

\* getMazeLayout: the visited flag of every cell, row by row.
getMazeLayout(g) == [y \in Coords |-> [x \in Coords |-> g[y][x].visited]]

GetMazeLayout ==
    /\ Idle
    /\ ret' = [op |-> "getMazeLayout", value |-> getMazeLayout(grid)]
    /\ UNCHANGED gameVars
    /\ UNCHANGED <<html, config, edits, potions, spawns, checks>>
    /\ UNCHANGED <<grid, entrance, exit, entranceWorldPosition, currentSeed, blockSeed,
                   pc, stack, i, stream, free, gensLeft, builds, world, built, firstLayout>>

\* The result is << >> for null and <<position>> otherwise.
GetRandomWalkablePosition ==
    /\ Idle
    /\ currentSeed - FIXED_SEED <
          MAZE_SIZE * MAZE_SIZE - 1 + 3 * connectionsToAdd + MaxQueryDraws
    /\ \E excludeRadius \in 0 .. MaxRadius :
         LET eligible == eligibleCells(grid, entrance, exit, excludeRadius)
             null     == [op |-> "getRandomWalkablePosition",
                          radius |-> excludeRadius, value |-> << >>]
         IN  IF Len(getAllWalkableCells(grid)) = 0 \/ Len(eligible) = 0
             THEN /\ ret' = null
                  /\ UNCHANGED <<currentSeed, stream, free>>
             ELSE \E j \in FloorRandom(RNG, Len(eligible)) :
                    LET r           == seedRandom(RNG, j, Len(eligible))
                        randomIndex == Min(j, Len(eligible) - 1)
                    IN  /\ ret' = IF randomIndex + 1 \in DOMAIN eligible
                                  THEN [null EXCEPT !.value =
                                          <<getCellCenter(entranceWorldPosition,
                                              eligible[randomIndex + 1].x,
                                              eligible[randomIndex + 1].z)>>]
                                  ELSE null
                        /\ currentSeed' = r.seed
                        /\ stream' = r.stream
                        /\ free' = r.free
    /\ UNCHANGED gameVars
    /\ UNCHANGED <<html, config, edits, potions, spawns, checks>>
    /\ UNCHANGED <<grid, entrance, exit, entranceWorldPosition, blockSeed, pc, stack, i,
                   gensLeft, builds, world, built, firstLayout>>

\* new MazeGenerator(): the model follows the newest instance; currentSeed
\* and blockSeed are module-level and shared by all instances.
Construct ==
    /\ Idle
    /\ gensLeft > 0
    /\ grid' = initializeGrid
    /\ entrance' = [x |-> 0, y |-> 0]
    /\ exit' = [x |-> 0, y |-> 0]
    /\ entranceWorldPosition' = [x |-> 0, y |-> 1, z |-> 0]
    /\ currentSeed' = FIXED_SEED
    /\ pc' = "idle"
    /\ ret' = [op |-> "constructor"]
    /\ UNCHANGED gameVars
    /\ UNCHANGED <<html, config, edits, potions, spawns, checks>>
    /\ UNCHANGED <<blockSeed, stack, i, stream, free, gensLeft, builds, world, built, firstLayout>>

\* ------------------------------------------------------------ placement (index.ts)

\* getRandomWalkablePosition(excludeRadius) called with the rng in state r:
\* the results it can give, << >> for null, with the rng state it leaves.
getRandomWalkablePosition(r, excludeRadius) ==
    LET eligible == eligibleCells(grid, entrance, exit, excludeRadius)
    IN  IF Len(getAllWalkableCells(grid)) = 0 \/ Len(eligible) = 0
        THEN {[rng |-> r, value |-> << >>]}
        ELSE {[rng   |-> seedRandom(r, j, Len(eligible)),
               value |-> LET randomIndex == Min(j, Len(eligible) - 1)
                         IN  IF randomIndex + 1 \in DOMAIN eligible
                             THEN <<getCellCenter(entranceWorldPosition,
                                       eligible[randomIndex + 1].x,
                                       eligible[randomIndex + 1].z)>>
                             ELSE << >>] :
                j \in FloorRandom(r, Len(eligible))}

\* placeItemSafely(world, mazeGenerator, position, modelUri, name, scale):
\* what it does to the world, the potions array and the log of checks.
placeItemSafely(position, name) ==
    LET entity == [name |-> name, index |-> Len(potions), position |-> position,
                   raised |-> FALSE]
    IN  /\ checks' = checks \cup {position}
        /\ IF ~isWalkablePath(grid, position.x, position.y, position.z)
           THEN /\ ret' = [op |-> "placeItemSafely", position |-> position,
                           value |-> << >>]
                /\ UNCHANGED <<spawns, potions>>
           ELSE /\ spawns' = spawns \cup {entity}
                /\ potions' = Append(potions, [entity |-> entity, position |-> position,
                                               active |-> TRUE])
                /\ ret' = [op |-> "placeItemSafely", position |-> position,
                           value |-> <<entity>>]

\* The positions placeWaterPotion and placeEntrancePotion pass for the
\* entrance getEntrance gave, and a position beside the grid.
ItemProbe ==
    {[x |-> getEntrance.x, y |-> getEntrance.y + 1, z |-> PATH_WIDTH + PATH_WIDTH \div 2],
     [x |-> getEntrance.x, y |-> getEntrance.y + 1, z |-> PATH_WIDTH \div 2],
     [x |-> -1, y |-> getEntrance.y + 1, z |-> PATH_WIDTH \div 2]}

PlaceItemSafely ==
    /\ Idle
    /\ Len(potions) < MaxPotions
    /\ \E position \in ItemProbe : placeItemSafely(position, "Potion")
    /\ UNCHANGED gameVars
    /\ UNCHANGED <<html, config, edits>>
    /\ UNCHANGED <<grid, entrance, exit, entranceWorldPosition, currentSeed, blockSeed,
                   pc, stack, i, stream, free, gensLeft, builds, world, built, firstLayout>>

PlaceRandomPotion ==
    /\ Idle
    /\ Len(potions) < MaxPotions
    /\ \E o \in getRandomWalkablePosition(RNG, 3) :
          /\ currentSeed' = o.rng.seed
          /\ stream' = o.rng.stream
          /\ free' = o.rng.free
          /\ IF o.value # << >>
             THEN placeItemSafely(o.value[1], "RandomPotion")
             ELSE /\ ret' = [op |-> "placeRandomPotion"]
                  /\ UNCHANGED <<potions, spawns, checks>>
    /\ UNCHANGED gameVars
    /\ UNCHANGED <<html, config, edits>>
    /\ UNCHANGED <<grid, entrance, exit, entranceWorldPosition, blockSeed, pc, stack, i,
                   gensLeft, builds, world, built, firstLayout>>

\* spawnZombies' loop from zombie number n on, with the rng in state r and
\* the zombies zs spawned so far: the rng states and zombies it can end with.
RECURSIVE spawnZombies(_, _, _)
spawnZombies(r, n, zs) ==
    IF n >= MAX_ZOMBIES
    THEN {[rng |-> r, zombies |-> zs]}
    ELSE UNION {spawnZombies(o.rng, n + 1,
                    IF o.value = << >>
                    THEN zs
                    ELSE zs \cup {[name |-> "Zombie", index |-> n,
                                   position |-> o.value[1], raised |-> TRUE]}) :
                  o \in getRandomWalkablePosition(r, ZOMBIE_SPAWN_EXCLUSION_RADIUS)}

SpawnZombies ==
    /\ Idle
    /\ \A e \in spawns : e.name # "Zombie"
    /\ \E o \in spawnZombies(RNG, 0, {}) :
          /\ currentSeed' = o.rng.seed
          /\ stream' = o.rng.stream
          /\ free' = o.rng.free
          /\ spawns' = spawns \cup o.zombies
    /\ ret' = [op |-> "spawnZombies"]
    /\ UNCHANGED gameVars
    /\ UNCHANGED <<html, config, edits, potions, checks>>
    /\ UNCHANGED <<grid, entrance, exit, entranceWorldPosition, blockSeed, pc, stack, i,
                   gensLeft, builds, world, built, firstLayout>>

\* ------------------------------------------------------------ game (index.ts)
(***************************************************************************)
(* The game server of index.ts: players join and leave, start a run with   *)
(* the spacebar, reach the goal or run out of oxygen, restart; a 250 ms    *)
(* interval lets zombies hit the players they touch.  Every handler runs   *)
(* to completion (one JavaScript thread) and is one action.  sent holds    *)
(* the UI messages the last handler sent.  Audio, chat lines, animations   *)
(* and rotations are left out: no handler reads them back.                 *)
(*                                                                         *)
(* Positions belong to the physics engine.  The model keeps, for each      *)
(* spawned player entity, its displacement to the closest spawned zombie;  *)
(* a handler that moves an entity (a teleport, a zombie's setPosition)     *)
(* leaves any displacement behind.                                         *)
(***************************************************************************)

Players == 1 .. MaxPlayers

\* The null of startTime, endTime and bestTime (times are never negative).
null == -1

\* Displacements (dx, dz), in tenths of a block: 1.13 blocks away and exactly
\* 1.2 blocks away.
OffsetProbe == { [dx |-> 8, dz |-> 8], [dx |-> 12, dz |-> 0] }

\* The state the server code of index.ts starts in, once spawnZombies has
\* set its interval.  Date.now() is far more than the cooldown.
\* No zombie touched a player in the last step.
NoTouch == [p \in Players |-> {}]

\* No sensor has reported the player since its run started.
NoReports == [calls |-> 0, entries |-> 0, best |-> 0]

ServerStarted ==
    /\ connectedPlayers = {}
    /\ playerTimers = << >>
    /\ playerEntities = {}
    /\ leaderboardTimes = << >>
    /\ playerStartingBonuses = << >>
    /\ now = ZOMBIE_DAMAGE_COOLDOWN + ClockStep
    /\ sent = << >>
    /\ zombieUpdateInterval = TRUE
    /\ playerDamageCooldowns = << >>
    /\ offset = << >>
    /\ outcomes = [p \in Players |-> 0]
    /\ recorded = EmptyBag
    /\ reports = [p \in Players |-> NoReports]
    /\ checkInterval = TRUE
    /\ touched = NoTouch
    /\ collected = << >>

\* f with key k set to v (Map.set).
mapSet(f, k, v) == [q \in DOMAIN f \cup {k} |-> IF q = k THEN v ELSE f[q]]

\* f without key k (Map.delete).
mapDelete(f, k) == [q \in DOMAIN f \ {k} |-> f[q]]

\* The timer state JOINED_WORLD gives a player.
newTimerState ==
    [isRunning |-> FALSE, startTime |-> null, endTime |-> null, bestTime |-> null,
     countdownActive |-> FALSE, timeRemaining |-> 0, oxygenTimer |-> 10,
     awaitingStart |-> TRUE]

playersStartedCount == Cardinality(DOMAIN playerStartingBonuses)

startOxygenCountdown(timerState) ==
    [timerState EXCEPT !.countdownActive = TRUE, !.oxygenTimer = 10]

handlePlayerDeath(timerState) ==
    [timerState EXCEPT !.countdownActive = FALSE, !.isRunning = FALSE]

\* Mutant: respawnPlayer leaves awaitingStart as it is.
respawnPlayerNotAwaiting(timerState) ==
    [timerState EXCEPT !.isRunning = FALSE, !.startTime = null, !.endTime = null,
                       !.countdownActive = FALSE]

respawnPlayer(timerState) ==
    [timerState EXCEPT !.isRunning = FALSE, !.startTime = null, !.endTime = null,
                       !.countdownActive = FALSE, !.awaitingStart = TRUE]

\* Array.prototype.sort with (a, b) => a.time - b.time: ascending and stable.
RECURSIVE sortByTime(_)
sortByTime(entries) ==
    IF entries = << >> THEN << >>
    ELSE LET head   == sortByTime(SubSeq(entries, 1, Len(entries) - 1))
             e      == entries[Len(entries)]
             k      == Cardinality({j \in DOMAIN head : head[j].time <= e.time})
         IN  SubSeq(head, 1, k) \o <<e>> \o SubSeq(head, k + 1, Len(head))

\* Mutant: the leaderboard keeps its first entries without sorting.
recordTimeUnsorted(entries, username, time) ==
    SubSeq(Append(entries, [username |-> username, time |-> time]),
           1, Min(LEADERBOARD_SIZE, Len(entries) + 1))

\* push, sort, slice(0, LEADERBOARD_SIZE).
recordTime(entries, username, time) ==
    LET sorted == sortByTime(Append(entries, [username |-> username, time |-> time]))
    IN  SubSeq(sorted, 1, Min(LEADERBOARD_SIZE, Len(sorted)))

\* broadcastLeaderboardUpdate: one message to every connected player.
broadcastLeaderboardUpdate(players, times) ==
    LET order == SelectSeq([q \in 1 .. MaxPlayers |-> q], LAMBDA q : q \in players)
    IN  [k \in 1 .. Len(order) |->
            [to |-> order[k], type |-> "leaderboard-update", times |-> times]]

\* distance < 1.2, for a displacement in tenths of a block.
withinCollision(d) == d.dx * d.dx + d.dz * d.dz < 12 * 12

\* playerDamageCooldowns.get(playerId) || 0
lastDamageTime(p) ==
    IF p \in DOMAIN playerDamageCooldowns THEN playerDamageCooldowns[p] ELSE 0

\* PlayerEvent.JOINED_WORLD.
JoinedWorld(p) ==
    /\ p \notin connectedPlayers
    /\ connectedPlayers' = connectedPlayers \cup {p}
    /\ playerTimers' = mapSet(playerTimers, p, newTimerState)
    /\ playerEntities' = playerEntities \cup {p}
    /\ \E o \in OffsetProbe : offset' = mapSet(offset, p, o)
    /\ sent' = << >>
    /\ UNCHANGED <<leaderboardTimes, playerStartingBonuses, now, zombieUpdateInterval, checkInterval,
                   playerDamageCooldowns, outcomes, recorded, reports, collected>>
    /\ touched' = NoTouch
    /\ UNCHANGED mazeVars

\* The callback of the 500 ms timeout JOINED_WORLD sets.  It writes no server
\* state; the model lets it run at any time while the player is connected.
WelcomeTimeout(p) ==
    /\ p \in connectedPlayers
    /\ sent' = << [to |-> p, type |-> "show-welcome"],
                  [to |-> p, type |-> "leaderboard-update", times |-> leaderboardTimes] >>
    /\ UNCHANGED <<connectedPlayers, playerTimers, playerEntities, leaderboardTimes,
                   playerStartingBonuses, now, zombieUpdateInterval, checkInterval,
                   playerDamageCooldowns, offset, outcomes, recorded, reports, collected>>
    /\ touched' = NoTouch
    /\ UNCHANGED mazeVars

\* PlayerEvent.LEFT_WORLD: the handler of the join/leave code, then the
\* handler spawnZombies registered, which clears the zombie interval when no
\* player entity is left.
LeftWorld(p) ==
    /\ p \in connectedPlayers
    /\ playerEntities' = playerEntities \ {p}
    /\ offset' = mapDelete(offset, p)
    /\ connectedPlayers' = connectedPlayers \ {p}
    /\ playerTimers' = mapDelete(playerTimers, p)
    /\ zombieUpdateInterval' = (zombieUpdateInterval /\ playerEntities' # {})
    /\ checkInterval' = (checkInterval /\ playerEntities' # {})
    /\ sent' = << >>
    /\ UNCHANGED <<leaderboardTimes, playerStartingBonuses, now,
                   playerDamageCooldowns, outcomes, recorded, reports, collected>>
    /\ touched' = NoTouch
    /\ UNCHANGED mazeVars

\* Mutant: the spacebar starts a run whether or not the player awaits one.
SpacebarInputAlways(p) ==
    /\ p \in playerEntities
    /\ IF p \in DOMAIN playerTimers
       THEN LET first == p \notin DOMAIN playerStartingBonuses
                startingBonusSeconds == ((playersStartedCount + 1) - 1) * 30
            IN  /\ playerTimers' =
                      [playerTimers EXCEPT ![p] =
                          startOxygenCountdown(
                              [@ EXCEPT !.awaitingStart = FALSE, !.isRunning = TRUE,
                                        !.startTime = now, !.endTime = null])]
                /\ playerStartingBonuses' =
                      IF first
                      THEN mapSet(playerStartingBonuses, p, startingBonusSeconds)
                      ELSE playerStartingBonuses
                /\ sent' =
                      << [to |-> p, type |-> "start-countdown", initialTime |-> 10] >>
                      \o (IF first /\ startingBonusSeconds > 0
                          THEN << [to |-> p, type |-> "apply-start-bonus",
                                   timeBonus |-> startingBonusSeconds] >>
                          ELSE << >>)
                      \o << [to |-> p, type |-> "hide-welcome"] >>
                /\ outcomes' = [outcomes EXCEPT ![p] = 0]
                /\ reports' = [reports EXCEPT ![p] = NoReports]
       ELSE /\ sent' = << >>
            /\ UNCHANGED <<playerTimers, playerStartingBonuses, outcomes, reports>>
    /\ UNCHANGED <<connectedPlayers, playerEntities, leaderboardTimes, now,
                   zombieUpdateInterval, checkInterval, playerDamageCooldowns, offset, recorded,
                   collected>>
    /\ touched' = NoTouch
    /\ UNCHANGED mazeVars

\* TICK_WITH_PLAYER_INPUT with the spacebar down.
SpacebarInput(p) ==
    /\ p \in playerEntities
    /\ IF p \in DOMAIN playerTimers /\ playerTimers[p].awaitingStart
       THEN LET first == p \notin DOMAIN playerStartingBonuses
                startingBonusSeconds == ((playersStartedCount + 1) - 1) * 30
            IN  /\ playerTimers' =
                      [playerTimers EXCEPT ![p] =
                          startOxygenCountdown(
                              [@ EXCEPT !.awaitingStart = FALSE, !.isRunning = TRUE,
                                        !.startTime = now, !.endTime = null])]
                /\ playerStartingBonuses' =
                      IF first
                      THEN mapSet(playerStartingBonuses, p, startingBonusSeconds)
                      ELSE playerStartingBonuses
                /\ sent' =
                      << [to |-> p, type |-> "start-countdown", initialTime |-> 10] >>
                      \o (IF first /\ startingBonusSeconds > 0
                          THEN << [to |-> p, type |-> "apply-start-bonus",
                                   timeBonus |-> startingBonusSeconds] >>
                          ELSE << >>)
                      \o << [to |-> p, type |-> "hide-welcome"] >>
                /\ outcomes' = [outcomes EXCEPT ![p] = 0]
                /\ reports' = [reports EXCEPT ![p] = NoReports]
       ELSE /\ sent' = << >>
            /\ UNCHANGED <<playerTimers, playerStartingBonuses, outcomes, reports>>
    /\ UNCHANGED <<connectedPlayers, playerEntities, leaderboardTimes, now,
                   zombieUpdateInterval, checkInterval, playerDamageCooldowns, offset, recorded,
                   collected>>
    /\ touched' = NoTouch
    /\ UNCHANGED mazeVars

\* Mutant: the goal handler does not look at isRunning.
GoalReachedUnguarded(p) ==
    /\ p \in playerEntities
    /\ reports[p].calls < MaxGoalReports
    /\ IF p \in DOMAIN playerTimers /\ playerTimers[p].startTime # null
       THEN LET timeTaken == now - playerTimers[p].startTime
                bestTime  == IF playerTimers[p].bestTime = null
                                \/ timeTaken < playerTimers[p].bestTime
                             THEN timeTaken
                             ELSE playerTimers[p].bestTime
            IN  /\ BagCardinality(recorded) < MaxRecorded
                /\ playerTimers' =
                      [playerTimers EXCEPT ![p] =
                          [@ EXCEPT !.endTime = now, !.isRunning = FALSE,
                                    !.countdownActive = FALSE, !.bestTime = bestTime]]
                /\ leaderboardTimes' = recordTime(leaderboardTimes, p, timeTaken)
                /\ sent' =
                      << [to |-> p, type |-> "stop-countdown"],
                         [to |-> p, type |-> "player-won",
                          completionTime |-> timeTaken, bestTime |-> bestTime] >>
                      \o broadcastLeaderboardUpdate(connectedPlayers, leaderboardTimes')
                /\ outcomes' = [outcomes EXCEPT ![p] = @ + 1]
                /\ recorded' = recorded (+) SetToBag({timeTaken})
                /\ reports' =
                      [reports EXCEPT ![p] =
                          [calls   |-> @.calls + 1,
                           entries |-> @.entries + 1,
                           best    |-> IF bestTime # playerTimers[p].bestTime
                                       THEN @.best + 1 ELSE @.best]]
       ELSE /\ sent' = << >>
            /\ reports' = [reports EXCEPT ![p].calls = @ + 1]
            /\ UNCHANGED <<playerTimers, leaderboardTimes, outcomes, recorded>>
    /\ UNCHANGED <<connectedPlayers, playerEntities, playerStartingBonuses, now,
                   zombieUpdateInterval, checkInterval, playerDamageCooldowns, offset, collected>>
    /\ touched' = NoTouch
    /\ UNCHANGED mazeVars

\* Mutant: the goal handler leaves the timer running.
GoalReachedStillRunning(p) ==
    /\ p \in playerEntities
    /\ reports[p].calls < MaxGoalReports
    /\ IF /\ p \in DOMAIN playerTimers
          /\ playerTimers[p].isRunning
          /\ playerTimers[p].startTime # null
       THEN LET timeTaken == now - playerTimers[p].startTime
                bestTime  == IF playerTimers[p].bestTime = null
                                \/ timeTaken < playerTimers[p].bestTime
                             THEN timeTaken
                             ELSE playerTimers[p].bestTime
            IN  /\ BagCardinality(recorded) < MaxRecorded
                /\ playerTimers' =
                      [playerTimers EXCEPT ![p] =
                          [@ EXCEPT !.endTime = now,
                                    !.countdownActive = FALSE, !.bestTime = bestTime]]
                /\ leaderboardTimes' = recordTime(leaderboardTimes, p, timeTaken)
                /\ sent' =
                      << [to |-> p, type |-> "stop-countdown"],
                         [to |-> p, type |-> "player-won",
                          completionTime |-> timeTaken, bestTime |-> bestTime] >>
                      \o broadcastLeaderboardUpdate(connectedPlayers, leaderboardTimes')
                /\ outcomes' = [outcomes EXCEPT ![p] = @ + 1]
                /\ recorded' = recorded (+) SetToBag({timeTaken})
                /\ reports' =
                      [reports EXCEPT ![p] =
                          [calls   |-> @.calls + 1,
                           entries |-> @.entries + 1,
                           best    |-> IF bestTime # playerTimers[p].bestTime
                                       THEN @.best + 1 ELSE @.best]]
       ELSE /\ sent' = << >>
            /\ reports' = [reports EXCEPT ![p].calls = @ + 1]
            /\ UNCHANGED <<playerTimers, leaderboardTimes, outcomes, recorded>>
    /\ UNCHANGED <<connectedPlayers, playerEntities, playerStartingBonuses, now,
                   zombieUpdateInterval, checkInterval, playerDamageCooldowns, offset, collected>>
    /\ touched' = NoTouch
    /\ UNCHANGED mazeVars

\* goalDetector.onPlayerReachedGoal.
GoalReached(p) ==
    /\ p \in playerEntities
    /\ reports[p].calls < MaxGoalReports
    /\ IF /\ p \in DOMAIN playerTimers
          /\ playerTimers[p].isRunning
          /\ playerTimers[p].startTime # null
       THEN LET timeTaken == now - playerTimers[p].startTime
                bestTime  == IF playerTimers[p].bestTime = null
                                \/ timeTaken < playerTimers[p].bestTime
                             THEN timeTaken
                             ELSE playerTimers[p].bestTime
            IN  /\ BagCardinality(recorded) < MaxRecorded
                /\ playerTimers' =
                      [playerTimers EXCEPT ![p] =
                          [@ EXCEPT !.endTime = now, !.isRunning = FALSE,
                                    !.countdownActive = FALSE, !.bestTime = bestTime]]
                /\ leaderboardTimes' = recordTime(leaderboardTimes, p, timeTaken)
                /\ sent' =
                      << [to |-> p, type |-> "stop-countdown"],
                         [to |-> p, type |-> "player-won",
                          completionTime |-> timeTaken, bestTime |-> bestTime] >>
                      \o broadcastLeaderboardUpdate(connectedPlayers, leaderboardTimes')
                /\ outcomes' = [outcomes EXCEPT ![p] = @ + 1]
                /\ recorded' = recorded (+) SetToBag({timeTaken})
                /\ reports' =
                      [reports EXCEPT ![p] =
                          [calls   |-> @.calls + 1,
                           entries |-> @.entries + 1,
                           best    |-> IF bestTime # playerTimers[p].bestTime
                                       THEN @.best + 1 ELSE @.best]]
       ELSE /\ sent' = << >>
            /\ reports' = [reports EXCEPT ![p].calls = @ + 1]
            /\ UNCHANGED <<playerTimers, leaderboardTimes, outcomes, recorded>>
    /\ UNCHANGED <<connectedPlayers, playerEntities, playerStartingBonuses, now,
                   zombieUpdateInterval, checkInterval, playerDamageCooldowns, offset, collected>>
    /\ touched' = NoTouch
    /\ UNCHANGED mazeVars

\* The UI message 'oxygen-depleted'.
OxygenDepleted(p) ==
    /\ p \in connectedPlayers
    /\ IF p \in DOMAIN playerTimers /\ playerTimers[p].countdownActive
       THEN /\ playerTimers' = [playerTimers EXCEPT ![p] = handlePlayerDeath(@)]
            /\ sent' = << [to |-> p, type |-> "player-died"],
                          [to |-> p, type |-> "stop-countdown"] >>
            /\ outcomes' = [outcomes EXCEPT ![p] = @ + 1]
       ELSE /\ sent' = << >>
            /\ UNCHANGED <<playerTimers, outcomes>>
    /\ UNCHANGED <<connectedPlayers, playerEntities, leaderboardTimes,
                   playerStartingBonuses, now, zombieUpdateInterval, checkInterval,
                   playerDamageCooldowns, offset, recorded, reports, collected>>
    /\ touched' = NoTouch
    /\ UNCHANGED mazeVars

\* The UI message 'player-restart'.
PlayerRestart(p) ==
    /\ p \in connectedPlayers
    /\ LET cleared ==
             IF p \in DOMAIN playerTimers
             THEN [playerTimers EXCEPT ![p] =
                     [@ EXCEPT !.isRunning = FALSE, !.startTime = null,
                               !.endTime = null, !.countdownActive = FALSE]]
             ELSE playerTimers
       IN  IF p \in playerEntities
           THEN /\ playerTimers' =
                      IF p \in DOMAIN cleared
                      THEN [cleared EXCEPT ![p] = respawnPlayer(@)]
                      ELSE cleared
                /\ \E o \in OffsetProbe : offset' = mapSet(offset, p, o)
                /\ sent' = << [to |-> p, type |-> "reset-timer"],
                              [to |-> p, type |-> "show-welcome"] >>
                /\ UNCHANGED playerEntities
           ELSE /\ playerTimers' = cleared
                /\ playerEntities' = playerEntities \cup {p}
                /\ \E o \in OffsetProbe : offset' = mapSet(offset, p, o)
                /\ sent' = << [to |-> p, type |-> "reset-timer"] >>
    /\ UNCHANGED <<connectedPlayers, leaderboardTimes, playerStartingBonuses, now,
                   zombieUpdateInterval, checkInterval, playerDamageCooldowns, outcomes,
                   recorded, reports, collected>>
    /\ touched' = NoTouch
    /\ UNCHANGED mazeVars

\* The spawned zombies.
Zombies == 1 .. MAX_ZOMBIES

\* Mutant: the attack does not record the time of the hit.
zombieAttackNoCooldown(timers, cooldowns, p, currentTime) ==
    LET last == IF p \in DOMAIN cooldowns THEN cooldowns[p] ELSE 0
    IN  IF /\ currentTime - last > ZOMBIE_DAMAGE_COOLDOWN
           /\ p \in DOMAIN timers
           /\ timers[p].isRunning
        THEN [timers    |-> [timers EXCEPT ![p].oxygenTimer =
                                              Max(0, @ - ZOMBIE_DAMAGE_SECONDS)],
              cooldowns |-> cooldowns,
              hit       |-> TRUE]
        ELSE [timers |-> timers, cooldowns |-> cooldowns, hit |-> FALSE]

\* What a zombie within collision distance of player p does, given the timer
\* states and the damage cooldowns as the zombies before it left them.
zombieAttack(timers, cooldowns, p, currentTime) ==
    LET last == IF p \in DOMAIN cooldowns THEN cooldowns[p] ELSE 0
    IN  IF /\ currentTime - last > ZOMBIE_DAMAGE_COOLDOWN
           /\ p \in DOMAIN timers
           /\ timers[p].isRunning
        THEN [timers    |-> [timers EXCEPT ![p].oxygenTimer =
                                              Max(0, @ - ZOMBIE_DAMAGE_SECONDS)],
              cooldowns |-> mapSet(cooldowns, p, currentTime),
              hit       |-> TRUE]
        ELSE [timers |-> timers, cooldowns |-> cooldowns, hit |-> FALSE]

\* zombies.forEach with its loop over the player entities, from pair k of
\* contacts on: contacts lists the <<zombie, player>> pairs within collision
\* distance, zombie by zombie.
RECURSIVE zombieLoop(_, _, _, _, _, _)
zombieLoop(contacts, k, timers, cooldowns, msgs, currentTime) ==
    IF k > Len(contacts)
    THEN [timers |-> timers, cooldowns |-> cooldowns, msgs |-> msgs]
    ELSE LET p == contacts[k][2]
             r == zombieAttack(timers, cooldowns, p, currentTime)
         IN  zombieLoop(contacts, k + 1, r.timers, r.cooldowns,
                        IF r.hit
                        THEN Append(msgs, [to |-> p, type |-> "zombie-damage",
                                           timeReduction |-> ZOMBIE_DAMAGE_SECONDS,
                                           newTime |-> r.timers[p].oxygenTimer])
                        ELSE msgs,
                        currentTime)

\* The contacts of one tick when touch[p] is the set of zombies within
\* collision distance of player entity p.
contactsOf(touch) ==
    LET all == [n \in 1 .. (MAX_ZOMBIES * MaxPlayers) |->
                  <<((n - 1) \div MaxPlayers) + 1, ((n - 1) % MaxPlayers) + 1>>]
        test(c) == c[2] \in DOMAIN touch /\ c[1] \in touch[c[2]]
    IN  SelectSeq(all, test)

\* One run of the zombie update interval's callback.  A player entity is
\* touched by at least the closest zombie when that one is within collision
\* distance, and by no zombie otherwise.
ZombieUpdate ==
    /\ zombieUpdateInterval
    /\ \E touch \in [playerEntities -> SUBSET Zombies] :
          /\ \A p \in playerEntities : (touch[p] # {}) = withinCollision(offset[p])
          /\ LET r == zombieLoop(contactsOf(touch), 1, playerTimers,
                                 playerDamageCooldowns, << >>, now)
             IN  /\ playerTimers' = r.timers
                 /\ playerDamageCooldowns' = r.cooldowns
                 /\ sent' = r.msgs
          /\ touched' = [p \in Players |-> IF p \in playerEntities THEN touch[p] ELSE {}]
    /\ offset' \in [playerEntities -> OffsetProbe]
    /\ UNCHANGED <<connectedPlayers, playerEntities, leaderboardTimes,
                   playerStartingBonuses, now, zombieUpdateInterval, checkInterval,
                   outcomes, recorded, reports, collected>>
    /\ UNCHANGED mazeVars

\* A player entity moves.
Move(p) ==
    /\ p \in playerEntities
    /\ \E o \in OffsetProbe \ {offset[p]} : offset' = [offset EXCEPT ![p] = o]
    /\ sent' = << >>
    /\ UNCHANGED <<connectedPlayers, playerTimers, playerEntities, leaderboardTimes,
                   playerStartingBonuses, now, zombieUpdateInterval, checkInterval,
                   playerDamageCooldowns, outcomes, recorded, reports, collected>>
    /\ touched' = NoTouch
    /\ UNCHANGED mazeVars

\* The orders getAllPlayerEntities may list the player entities in.
Orders(S) ==
    {q \in [1 .. Cardinality(S) -> S] : \A a, b \in DOMAIN q : q[a] = q[b] => a = b}

\* Where a player entity may stand when the potions are checked, in tenths
\* of a block: on a potion of the list, 1.4 and 1.5 blocks beside it, 0.9
\* blocks from it in each axis, or far from every potion.
PlayerProbe ==
    {[x |-> 10 * potions[k].position.x + o[1],
      y |-> 10 * potions[k].position.y + o[2],
      z |-> 10 * potions[k].position.z + o[3]] :
        k \in DOMAIN potions,
        o \in {<<0, 0, 0>>, <<14, 0, 0>>, <<15, 0, 0>>, <<9, 9, 9>>}}
    \cup {[x |-> -1000, y |-> 0, z |-> -1000]}

\* distance < 1.5 between a player entity at pos (tenths of a block) and a
\* potion at position (blocks), on the squares.
withinReach(pos, position) ==
    (pos.x - 10 * position.x) * (pos.x - 10 * position.x)
    + (pos.y - 10 * position.y) * (pos.y - 10 * position.y)
    + (pos.z - 10 * position.z) * (pos.z - 10 * position.z) < 15 * 15

\* The players the potion could go to: in reach, with a running timer.
eligible(potion, order, pos) ==
    LET test(p) == /\ withinReach(pos[p], potion.position)
                   /\ p \in DOMAIN playerTimers
                   /\ playerTimers[p].isRunning
    IN  SelectSeq(order, test)

\* Mutant: the player loop goes on after a player collected the potion.
collectorsNoBreak(potion, order, pos) ==
    IF potion.active /\ potion.entity \in spawns
    THEN eligible(potion, order, pos)
    ELSE << >>

\* The players that are sent 'potion-collected' for one potion of the list:
\* none for a potion that is inactive or despawned, else the first player in
\* reach whose timer is running, at which the player loop breaks.
collectors(potion, order, pos) ==
    IF potion.active /\ potion.entity \in spawns /\ eligible(potion, order, pos) # << >>
    THEN << eligible(potion, order, pos)[1] >>
    ELSE << >>

\* The potion loop from index k on: what is collected, in order.
RECURSIVE checkPotions(_, _, _)
checkPotions(k, order, pos) ==
    IF k > Len(potions)
    THEN << >>
    ELSE LET c == collectors(potions[k], order, pos)
         IN  [n \in 1 .. Len(c) |->
                 [entity  |-> potions[k].entity,
                  player  |-> c[n],
                  inReach |-> {eligible(potions[k], order, pos)[m] :
                                  m \in 1 .. Len(eligible(potions[k], order, pos))}]]
             \o checkPotions(k + 1, order, pos)

\* One run of the 100 ms callback of setupPotionCollectionSystem: the potion
\* loop, then the clean-up of the array.
PotionCheck ==
    /\ checkInterval
    /\ \E order \in Orders(playerEntities), pos \in [playerEntities -> PlayerProbe] :
          LET taken == checkPotions(1, order, pos)
              gone  == {taken[n].entity : n \in DOMAIN taken}
              keep(potion) == /\ potion.active
                              /\ potion.entity \notin gone
                              /\ potion.entity \in spawns
          IN  /\ sent' = [n \in DOMAIN taken |->
                            [to |-> taken[n].player, type |-> "potion-collected",
                             timeBonus |-> 15]]
              /\ spawns' = spawns \ gone
              /\ potions' = SelectSeq(potions, keep)
              /\ collected' = collected \o taken
    /\ UNCHANGED <<connectedPlayers, playerTimers, playerEntities, leaderboardTimes,
                   playerStartingBonuses, now, zombieUpdateInterval, checkInterval,
                   playerDamageCooldowns, offset, outcomes, recorded, reports>>
    /\ touched' = NoTouch
    /\ UNCHANGED <<html, config, edits, checks>>
    /\ UNCHANGED <<grid, entrance, exit, entranceWorldPosition, currentSeed, blockSeed,
                   pc, stack, i, ret, stream, free, gensLeft, builds, world, built,
                   firstLayout>>

\* Time passes.
Advance ==
    /\ now < ZOMBIE_DAMAGE_COOLDOWN + ClockStep + MaxClockSteps * ClockStep
    /\ now' = now + ClockStep
    /\ UNCHANGED <<connectedPlayers, playerTimers, playerEntities, leaderboardTimes,
                   playerStartingBonuses, sent, zombieUpdateInterval, checkInterval,
                   playerDamageCooldowns, offset, outcomes, recorded, reports, collected>>
    /\ touched' = NoTouch
    /\ UNCHANGED mazeVars

\* ------------------------------------------------------------ configuration

\* The values of the module constants MAZE_SIZE and PATH_WIDTH a build of
\* the program may have: the model's own and two that are not positive.
ConfigSizes == {-1, 0, MAZE_SIZE}

ConfigWidths == {-1, 0, PATH_WIDTH}

\* initializeGrid for a grid size: Array.from({ length: size }) of rows of
\* cells, the empty array for a size that is not positive.
initializeGridOf(size) ==
    [y \in 0 .. (size - 1) |-> [x \in 0 .. (size - 1) |->
        [x |-> x, y |-> y, visited |-> FALSE,
         walls |-> [top |-> TRUE, right |-> TRUE, bottom |-> TRUE, left |-> TRUE]]]]

\* generateMaze, from call to return, when the grid size is not positive:
\* both bounds checks fail, depthFirstSearch returns at once and
\* addExtraConnections makes floor(size^2 * 0.1) = 0 attempts.
GenerateMazeDegenerate ==
    /\ pc \in {"idle", "done"}
    /\ gensLeft > 0
    /\ config.size <= 0
    /\ (config.size * config.size) \div 10 = 0
    /\ currentSeed' = FIXED_SEED
    /\ entrance' = [x |-> config.size \div 2, y |-> 0]
    /\ exit' = [x |-> config.size \div 2, y |-> config.size - 1]
    /\ grid' = initializeGridOf(config.size)
    /\ stack' = << >>
    /\ i' = 0
    /\ pc' = "done"
    /\ gensLeft' = gensLeft - 1
    /\ ret' = [op |-> "generateMaze"]
    /\ UNCHANGED gameVars
    /\ UNCHANGED <<html, config, edits, potions, spawns, checks>>
    /\ UNCHANGED <<entranceWorldPosition, blockSeed, stream, free, builds, world, built, firstLayout>>

\* ------------------------------------------------------------ specifications

\* The state a constructed MazeGenerator is in.
Constructed ==
    /\ grid = initializeGrid
    /\ entrance = [x |-> 0, y |-> 0]
    /\ exit = [x |-> 0, y |-> 0]
    /\ entranceWorldPosition = [x |-> 0, y |-> 1, z |-> 0]
    /\ currentSeed = FIXED_SEED
    /\ blockSeed = BLOCK_SEED
    /\ pc = "idle"
    /\ stack = << >>
    /\ i = 0
    /\ ret = [op |-> "constructor"]
    /\ stream = << >>
    /\ builds = 0
    /\ world = [walls |-> {}, ids |-> {}]
    /\ built = [seed |-> BLOCK_SEED, walls |-> {}]
    /\ html = HtmlLoaded
    /\ firstLayout = << >>
    /\ config = [size |-> MAZE_SIZE, pathWidth |-> PATH_WIDTH]
    /\ edits = 0
    /\ potions = << >>
    /\ spawns = {}
    /\ checks = {}
    /\ ServerStarted

\* One generateMaze call on a new MazeGenerator, for every random stream.
InitGen == Constructed /\ free = -1 /\ gensLeft = 1

NextGen == GenerateMaze \/ CarveStep \/ CarveDone \/ ExtraConnection \/ GenerateDone

SpecGen == InitGen /\ [][NextGen]_vars

\* One generateMaze call of the game and then one of the page, for the
\* streams MaxFreeDrawsHtml allows.
NextHtml ==
    \/ GenerateMaze \/ CarveStep \/ CarveDone \/ ExtraConnection \/ GenerateDone
    \/ HtmlGenerateMaze \/ HtmlCarveStep \/ HtmlCarveDone \/ HtmlExtraConnection
    \/ HtmlGenerateDone

InitHtml == Constructed /\ free = MaxFreeDrawsHtml /\ gensLeft = 1

SpecHtml == InitHtml /\ [][NextHtml]_vars

\* generateMaze is synchronous: once called, depthFirstSearch's loop keeps
\* taking steps until its condition fails.
SpecGenLive == InitGen /\ [][NextGen]_vars /\ WF_vars(CarveStep)

\* Every operation in any order around one generateMaze call, for the
\* streams MaxFreeDraws allows.
Init == Constructed /\ free = MaxFreeDraws /\ gensLeft = 1

Next ==
    \/ GenerateMaze \/ CarveStep \/ CarveDone \/ ExtraConnection \/ GenerateDone
    \/ Construct \/ BuildMaze
    \/ GetEntrance \/ GetExit \/ IsWalkablePath \/ GetCellCenter
    \/ GetAllWalkableCells \/ GetMazeLayout \/ GetRandomWalkablePosition

Spec == Init /\ [][Next]_vars

\* Repeated generateMaze calls, on the same and on new instances, with the
\* calls in between that change state.
InitRegen == Constructed /\ free = MaxFreeDrawsRegen /\ gensLeft = MaxGens

NextRegen ==
    \/ GenerateMaze \/ CarveStep \/ CarveDone \/ ExtraConnection \/ GenerateDone
    \/ Construct \/ BuildMaze \/ GetEntrance \/ GetRandomWalkablePosition

SpecRegen == InitRegen /\ [][NextRegen]_vars

\* One generateMaze call with createPatternMaze and addRandomPaths calls
\* before and after it.
InitPaths == Constructed /\ free = 0 /\ gensLeft = 1

NextPaths ==
    \/ GenerateMaze \/ CarveStep \/ CarveDone \/ ExtraConnection \/ GenerateDone
    \/ CreatePatternMaze \/ AddRandomPaths

SpecPaths == InitPaths /\ [][NextPaths]_vars

\* createPathToExit from every in-bounds cell, on the grid the constructor
\* left (exit (0, 0), nothing visited) and on generated mazes.
InitRepair == Constructed /\ free = MaxFreeDraws /\ gensLeft = 1

NextRepair ==
    \/ GenerateMaze \/ CarveStep \/ CarveDone \/ ExtraConnection \/ GenerateDone
    \/ CreatePathToExit

SpecRepair == InitRepair /\ [][NextRepair]_vars

\* The placement functions of index.ts around one generateMaze call.
InitSpawn == Constructed /\ free = MaxFreeDraws /\ gensLeft = 1

NextSpawn ==
    \/ GenerateMaze \/ CarveStep \/ CarveDone \/ ExtraConnection \/ GenerateDone
    \/ PlaceItemSafely \/ PlaceRandomPotion \/ SpawnZombies

SpecSpawn == InitSpawn /\ [][NextSpawn]_vars

\* new MazeGenerator() and one generateMaze call, for each configuration.
InitConfig ==
    /\ \E size \in ConfigSizes, pathWidth \in ConfigWidths :
          /\ config = [size |-> size, pathWidth |-> pathWidth]
          /\ grid = initializeGridOf(size)
    /\ entrance = [x |-> 0, y |-> 0]
    /\ exit = [x |-> 0, y |-> 0]
    /\ entranceWorldPosition = [x |-> 0, y |-> 1, z |-> 0]
    /\ currentSeed = FIXED_SEED
    /\ blockSeed = BLOCK_SEED
    /\ pc = "idle"
    /\ stack = << >>
    /\ i = 0
    /\ ret = [op |-> "constructor"]
    /\ stream = << >>
    /\ builds = 0
    /\ world = [walls |-> {}, ids |-> {}]
    /\ built = [seed |-> BLOCK_SEED, walls |-> {}]
    /\ html = HtmlLoaded
    /\ firstLayout = << >>
    /\ edits = 0
    /\ potions = << >>
    /\ spawns = {}
    /\ checks = {}
    /\ ServerStarted
    /\ free = MaxFreeDraws
    /\ gensLeft = 1

NextConfig ==
    \/ config.size = MAZE_SIZE /\ GenerateMaze
    \/ CarveStep \/ CarveDone \/ ExtraConnection \/ GenerateDone
    \/ GenerateMazeDegenerate

SpecConfig == InitConfig /\ [][NextConfig]_vars

\* seedRandom calls and seed assignments alone, for each probed sine value.
InitRandom == Constructed /\ free = -1 /\ gensLeft = 0

NextRandom == SeedRandom \/ Reseed

SpecRandom == InitRandom /\ [][NextRandom]_vars

\* The game server, from its start.
InitGame == Constructed /\ free = 0 /\ gensLeft = 0

\* Every handler of the game server, for the players 1 .. MaxGamePlayers.
NextGame ==
    \/ \E p \in 1 .. MaxGamePlayers : JoinedWorld(p)
    \/ \E p \in 1 .. MaxGamePlayers : WelcomeTimeout(p)
    \/ \E p \in 1 .. MaxGamePlayers : LeftWorld(p)
    \/ \E p \in 1 .. MaxGamePlayers : SpacebarInput(p)
    \/ \E p \in 1 .. MaxGamePlayers : GoalReached(p)
    \/ \E p \in 1 .. MaxGamePlayers : OxygenDepleted(p)
    \/ \E p \in 1 .. MaxGamePlayers : PlayerRestart(p)
    \/ \E p \in 1 .. MaxGamePlayers : Move(p)
    \/ ZombieUpdate
    \/ Advance

SpecGame == InitGame /\ [][NextGame]_vars

\* startServer has not served a player yet: it generates the maze and places
\* the potions before any handler runs.
Startup == pc = "done" /\ connectedPlayers = {} /\ collected = << >>

InitPotions == Constructed /\ free = 0 /\ gensLeft = 1

\* The server's start, then players that join, start runs and leave while
\* the potions are checked.
NextPotions ==
    \/ GenerateMaze \/ CarveStep \/ CarveDone \/ ExtraConnection \/ GenerateDone
    \/ Startup /\ PlaceItemSafely
    \/ Startup /\ PlaceRandomPotion
    \/ pc = "done" /\ \E p \in Players : JoinedWorld(p)
    \/ \E p \in Players : LeftWorld(p)
    \/ \E p \in Players : SpacebarInput(p)
    \/ pc = "done" /\ PotionCheck

SpecPotions == InitPotions /\ [][NextPotions]_vars

\* Players that join, start runs, die, move and leave among the zombies.
NextZombies ==
    \/ \E p \in Players : JoinedWorld(p)
    \/ \E p \in Players : LeftWorld(p)
    \/ \E p \in Players : SpacebarInput(p)
    \/ \E p \in Players : OxygenDepleted(p)
    \/ \E p \in Players : Move(p)
    \/ ZombieUpdate
    \/ Advance

\* setInterval runs the callback every 250 ms for as long as the interval is
\* set: a callback that stays due is run.
SpecZombies == InitGame /\ [][NextZombies]_vars /\ WF_vars(ZombieUpdate)

\* ------------------------------------------------------------ properties

AllCells == Coords \X Coords

cellAt(g, c) == g[c[2]][c[1]]

\* The neighbour of cell c in direction d (which may lie outside the grid).
toward(c, d) == <<c[1] + d.x, c[2] + d.y>>

\* Cells c and its in-bounds neighbour in direction d have no wall between
\* them: both flags of the pair are absent.
passage(g, c, d) ==
    /\ isValidCell(toward(c, d)[1], toward(c, d)[2])
    /\ ~cellAt(g, c).walls[d.wall]
    /\ ~cellAt(g, toward(c, d)).walls[d.opposite]

\* Breadth-first search through passages: seen so far, and the last layer.
RECURSIVE reachableFrom(_, _, _)
reachableFrom(g, seen, frontier) ==
    LET new == {toward(p[1], DIRECTIONS[p[2]]) :
                  p \in {q \in frontier \X (1 .. 4) :
                           passage(g, q[1], DIRECTIONS[q[2]])}} \ seen
    IN  IF new = {} THEN seen ELSE reachableFrom(g, seen \cup new, new)

\* The cells a walk from the entrance through passages reaches.
Reached(g) ==
    reachableFrom(g, {<<entrance.x, entrance.y>>}, {<<entrance.x, entrance.y>>})

\* The number of passages (absent wall pairs between adjacent cells).
Passages(g) ==
    Cardinality({p \in AllCells \X {2, 3} : passage(g, p[1], DIRECTIONS[p[2]])})

\* C1: after generateMaze completes, every cell of the grid has visited = true.
C1_AllVisited ==
    pc = "done" => \A c \in AllCells : cellAt(grid, c).visited

C1_Witness ==
    /\ pc = "done"
    /\ stack = << >>
    /\ \A c \in AllCells : cellAt(grid, c).visited

\* C2: from the end of the carve on, through every iteration of the loop
\* injector and when generateMaze has completed, every cell (the exit cell
\* among them) is reachable from the entrance cell through a chain of
\* adjacent cells whose shared wall pair is absent: loop injection makes no
\* reachable cell unreachable.
C2_Connected ==
    pc \in {"inject", "done"} =>
        LET reached == Reached(grid)
        IN  reached = AllCells /\ <<exit.x, exit.y>> \in reached

\* A generated maze in which the loop injector closed a cycle.
C2_Witness ==
    /\ pc = "done"
    /\ Passages(grid) > MAZE_SIZE * MAZE_SIZE - 1
    /\ Reached(grid) = AllCells

\* C3: after generateMaze completes, for all adjacent cells A and B, A's wall
\* facing B is absent iff B's wall facing A is absent.
C3_WallPairs ==
    pc = "done" =>
        \A c \in AllCells, k \in 1 .. 4 :
            isValidCell(toward(c, DIRECTIONS[k])[1], toward(c, DIRECTIONS[k])[2]) =>
                (cellAt(grid, c).walls[DIRECTIONS[k].wall]
                   = cellAt(grid, toward(c, DIRECTIONS[k])).walls[DIRECTIONS[k].opposite])

\* A generated maze with an absent pair made by the injector and a standing pair.
C3_Witness ==
    /\ pc = "done"
    /\ Passages(grid) = MAZE_SIZE * MAZE_SIZE
    /\ \E c \in AllCells :
          /\ isValidCell(c[1] + 1, c[2])
          /\ cellAt(grid, c).walls.right
          /\ cellAt(grid, <<c[1] + 1, c[2]>>).walls.left

\* C5: once generateMaze has opened them, the entrance cell's top wall (from
\* the start of the carve) and the exit cell's bottom wall (from the end of
\* the carve) stay absent through every later step, and are absent when
\* generateMaze completes.
C5_Openings ==
    /\ pc \in {"carve", "inject", "done"} => ~grid[entrance.y][entrance.x].walls.top
    /\ pc \in {"inject", "done"} => ~grid[exit.y][exit.x].walls.bottom

C5_Witness ==
    /\ pc = "done"
    /\ i = connectionsToAdd
    /\ ~grid[entrance.y][entrance.x].walls.top
    /\ ~grid[exit.y][exit.x].walls.bottom
    /\ entrance # exit

\* The outward-facing walls of boundary cells that are absent.
OutwardAbsent(g) ==
    {w \in AllCells \X (1 .. 4) :
        /\ ~isValidCell(toward(w[1], DIRECTIONS[w[2]])[1],
                        toward(w[1], DIRECTIONS[w[2]])[2])
        /\ ~cellAt(g, w[1]).walls[DIRECTIONS[w[2]].wall]}

\* C6: the carver and the loop injector never remove an outward-facing
\* boundary wall, and after generateMaze completes exactly two are absent:
\* the entrance cell's top wall and the exit cell's bottom wall.
C6_Boundary ==
    /\ OutwardAbsent(grid) \subseteq
          { <<<<entrance.x, entrance.y>>, 1>>, <<<<exit.x, exit.y>>, 3>> }
    /\ pc = "done" =>
          /\ OutwardAbsent(grid) =
                { <<<<entrance.x, entrance.y>>, 1>>, <<<<exit.x, exit.y>>, 3>> }
          /\ Cardinality(OutwardAbsent(grid)) = 2

\* A generated maze whose injector attempt pointed out of the grid.
C6_Witness ==
    /\ pc = "done"
    /\ Cardinality(OutwardAbsent(grid)) = 2
    /\ Passages(grid) = MAZE_SIZE * MAZE_SIZE - 1

\* C4: every generateMaze call after the first, on the same instance or on a
\* new one and whatever was called in between, leaves exactly the wall flags
\* and visited flags the first call left (same seed, same grid size).
C4_Deterministic ==
    pc = "done" /\ firstLayout # << >> => grid = firstLayout[1]

\* A second generation has completed, of a maze whose injector opened a wall.
C4_Witness ==
    /\ pc = "done"
    /\ gensLeft = 0
    /\ firstLayout # << >>
    /\ firstLayout[1] = grid
    /\ Passages(grid) = MAZE_SIZE * MAZE_SIZE

\* World z coordinates outside the grid range [0, MAZE_SIZE * PATH_WIDTH): the
\* depth of the two platforms.
OutsideZ ==
    ((-PLATFORM_DEPTH) .. -1)
        \cup ((MAZE_SIZE * PATH_WIDTH) .. (MAZE_SIZE * PATH_WIDTH + PLATFORM_DEPTH - 1))

\* C7: for every in-bounds grid coordinate, isWalkablePath at the cell's
\* centre (getCellCenter) equals the cell's visited flag; for every world
\* point whose z is outside the grid range it is true; and that is what the
\* last isWalkablePath call returned.
C7_Walkable ==
    /\ \A gx \in Coords, gz \in Coords :
          LET c == getCellCenter(entranceWorldPosition, gx, gz)
          IN  isWalkablePath(grid, c.x, c.y, c.z) = grid[gz][gx].visited
    /\ \A wx \in (-1) .. (MAZE_SIZE * PATH_WIDTH), wz \in OutsideZ :
          isWalkablePath(grid, wx, 1, wz)
    /\ ret.op = "isWalkablePath" =>
          /\ ret.z \in OutsideZ => ret.value
          /\ \A gx \in Coords, gz \in Coords :
                (/\ ret.x = getCellCenter(entranceWorldPosition, gx, gz).x
                 /\ ret.z = getCellCenter(entranceWorldPosition, gx, gz).z)
                    => ret.value = grid[gz][gx].visited

\* isWalkablePath returned true at the centre of a cell of a generated maze.
C7_Witness ==
    /\ pc = "done"
    /\ ret.op = "isWalkablePath"
    /\ ret.z \notin OutsideZ
    /\ isValidCell(ret.x \div PATH_WIDTH, ret.z \div PATH_WIDTH)
    /\ ret.value

\* Cell c is farther than r (Manhattan) from both the entrance and the exit.
farFromBoth(c, r) ==
    /\ Abs(c[1] - entrance.x) + Abs(c[2] - entrance.y) > r
    /\ Abs(c[1] - exit.x) + Abs(c[2] - exit.y) > r

\* Some walkable cell is farther than r from both.
existsFar(r) == \E c \in AllCells : cellAt(grid, c).visited /\ farFromBoth(c, r)

\* The last call returned the centre of walkable cell c.
returnedCell(c) ==
    /\ ret.value # << >>
    /\ cellAt(grid, c).visited
    /\ ret.value[1] = getCellCenter(entranceWorldPosition, c[1], c[2])

\* C8 as claimed: for every excludeRadius r >= 0, r = 0 included, when some
\* walkable cell is farther than r from both entrance and exit,
\* getRandomWalkablePosition(r) returns the centre of such a cell.
C8_Original ==
    (ret.op = "getRandomWalkablePosition" /\ existsFar(ret.radius)) =>
        \E c \in AllCells : returnedCell(c) /\ farFromBoth(c, ret.radius)

\* C8 as amended: that holds for every excludeRadius r > 0; with r = 0 no
\* cell is excluded and the result is the centre of some walkable cell.
C8_Exclusion ==
    ret.op = "getRandomWalkablePosition" =>
        /\ (ret.radius > 0 /\ existsFar(ret.radius)) =>
              \E c \in AllCells : returnedCell(c) /\ farFromBoth(c, ret.radius)
        /\ (ret.radius = 0 /\ \E c \in AllCells : cellAt(grid, c).visited) =>
              \E c \in AllCells : returnedCell(c)

\* A call with r > 0 on a generated maze that has a cell far from both.
C8_Witness ==
    /\ pc = "done"
    /\ ret.op = "getRandomWalkablePosition"
    /\ ret.radius > 0
    /\ existsFar(ret.radius)
    /\ \E c \in AllCells : returnedCell(c) /\ farFromBoth(c, ret.radius)

\* C9: getRandomWalkablePosition returns null iff no cell is visited; what it
\* returns otherwise is the centre of a walkable cell, also when the radius
\* filter leaves no eligible cell; on a generated maze it never returns null.
C9_NullOnlyWhenEmpty ==
    ret.op = "getRandomWalkablePosition" =>
        /\ (ret.value = << >>) <=> (\A c \in AllCells : ~cellAt(grid, c).visited)
        /\ ret.value # << >> => \E c \in AllCells : returnedCell(c)
        /\ pc = "done" => ret.value # << >>

\* A call whose radius filter left no eligible cell returned a walkable cell.
C9_Witness ==
    /\ pc = "done"
    /\ ret.op = "getRandomWalkablePosition"
    /\ ret.radius > 0
    /\ ~existsFar(ret.radius)
    /\ \E c \in AllCells : returnedCell(c)

\* A step that is a buildMaze call or a query call.
QueryOps ==
    {"buildMaze", "isWalkablePath", "getCellCenter", "getAllWalkableCells",
     "getMazeLayout", "getRandomWalkablePosition", "getEntrance", "getExit"}

QueryStep == Idle /\ pc' = pc /\ ret'.op \in QueryOps

\* C10 as claimed: buildMaze and every query method, getRandomWalkablePosition
\* included, leave the stream position currentSeed unchanged.
C10_Original ==
    [][QueryStep => currentSeed' = currentSeed]_vars

\* C10 as amended: buildMaze and every query method other than
\* getRandomWalkablePosition leave currentSeed unchanged;
\* getRandomWalkablePosition advances it by exactly one when some cell is
\* visited and leaves it unchanged when none is.
C10_StreamFrame ==
    [][QueryStep =>
         currentSeed' = currentSeed +
            (IF /\ ret'.op = "getRandomWalkablePosition"
                /\ \E c \in AllCells : cellAt(grid, c).visited
             THEN 1 ELSE 0)]_vars

\* getRandomWalkablePosition has drawn once after a complete generation.
C10_Witness ==
    /\ pc = "done"
    /\ ret.op = "getRandomWalkablePosition"
    /\ ret.value # << >>
    /\ currentSeed = FIXED_SEED + MAZE_SIZE * MAZE_SIZE - 1 + 3 * connectionsToAdd + 1

\* C11: once generateMaze has completed, a call of isWalkablePath,
\* getCellCenter, getAllWalkableCells, getMazeLayout,
\* getRandomWalkablePosition, getEntrance, getExit or buildMaze leaves every
\* cell's wall flags and visited flag and the entrance and exit coordinates
\* as they were.
C11_QueryFrame ==
    [][pc = "done" /\ QueryStep =>
         grid' = grid /\ entrance' = entrance /\ exit' = exit]_vars

\* A query has answered after buildMaze, getEntrance and
\* getRandomWalkablePosition were all called on the generated maze.
C11_Witness ==
    /\ pc = "done"
    /\ ret.op = "getMazeLayout"
    /\ \A c \in AllCells : ret.value[c[2]][c[1]]
    /\ builds = MaxBuilds
    /\ entranceWorldPosition = getEntrance
    /\ currentSeed > FIXED_SEED + MAZE_SIZE * MAZE_SIZE - 1 + 3 * connectionsToAdd

\* Adjacent cells agree on the wall between them.
PairsAgree(g) ==
    \A c \in AllCells, k \in 1 .. 4 :
        isValidCell(toward(c, DIRECTIONS[k])[1], toward(c, DIRECTIONS[k])[2]) =>
            (cellAt(g, c).walls[DIRECTIONS[k].wall]
               = cellAt(g, toward(c, DIRECTIONS[k])).walls[DIRECTIONS[k].opposite])

\* C12: depthFirstSearch, createPathToExit, addExtraConnections,
\* createPatternMaze and addRandomPaths remove walls in pairs: after any
\* sequence of them, a cell has no wall facing a neighbour iff the neighbour
\* has none facing it.
C12_PairsAlways == PairsAgree(grid)

\* C13: a generateMaze call on a generated MazeGenerator, whatever was called
\* in between, starts from a grid in which only the entrance cell is visited
\* and only the entrance's top wall is absent, and leaves the walls, visited
\* flags, entrance and exit the first call left; initializeGrid alone leaves
\* every cell with four walls and unvisited.
C13_Regenerate ==
    /\ [](pc = "done" /\ firstLayout # << >> => <<grid, entrance, exit>> = firstLayout)
    /\ [](ret.op = "constructor" =>
             \A c \in AllCells :
                /\ ~cellAt(grid, c).visited
                /\ \A k \in 1 .. 4 : cellAt(grid, c).walls[DIRECTIONS[k].wall])
    /\ [][pc' = "carve" /\ pc # "carve" =>
             \A c \in AllCells :
                /\ cellAt(grid', c).visited = (c = <<entrance'.x, entrance'.y>>)
                /\ \A k \in 1 .. 4 :
                      cellAt(grid', c).walls[DIRECTIONS[k].wall]
                        = ~(c = <<entrance'.x, entrance'.y>> /\ k = 1)]_vars

\* The same instance was generated twice: getEntrance was called on the
\* generated maze and generateMaze is the last call made.
C13_Witness ==
    /\ pc = "done"
    /\ gensLeft = 0
    /\ ret.op = "generateMaze"
    /\ firstLayout = <<grid, entrance, exit>>
    /\ entranceWorldPosition = getEntrance
    /\ builds = MaxBuilds

\* C14: from the start of generateMaze on, the entrance is the cell
\* (floor(MAZE_SIZE / 2), 0) and the exit the cell
\* (floor(MAZE_SIZE / 2), MAZE_SIZE - 1); for size 50 that is (25, 0) and
\* (25, 49).
C14_EntranceExit ==
    /\ pc # "idle" =>
          /\ entrance = [x |-> MAZE_SIZE \div 2, y |-> 0]
          /\ exit = [x |-> MAZE_SIZE \div 2, y |-> MAZE_SIZE - 1]
    /\ LET size == 50
       IN  <<size \div 2, 0>> = <<25, 0>> /\ <<size \div 2, size - 1>> = <<25, 49>>

\* generateMaze has completed and its two openings are at the entrance and
\* exit cells, which differ.
C14_Witness ==
    /\ pc = "done"
    /\ entrance # exit
    /\ ~cellAt(grid, <<entrance.x, entrance.y>>).walls.top
    /\ ~cellAt(grid, <<exit.x, exit.y>>).walls.bottom
    /\ cellAt(grid, <<exit.x, exit.y>>).visited

\* The value Math.floor(seedRandom() * k) had for the stream position p.
drawn(st, p, k) ==
    CHOOSE j \in 0 .. (k - 1) :
        st[p].lo * k >= j * st[p].den /\ st[p].hi * k <= (j + 1) * st[p].den

\* The cell, direction and neighbour of the injector attempt that drew at
\* the stream positions p, p + 1 and p + 2.
attemptAt(st, p) ==
    LET x   == drawn(st, p, MAZE_SIZE)
        y   == drawn(st, p + 1, MAZE_SIZE)
        dir == DIRECTIONS[drawn(st, p + 2, Len(DIRECTIONS)) + 1]
    IN  [cell |-> <<x, y>>, dir |-> dir, next |-> <<x + dir.x, y + dir.y>>]

\* Both walls of the attempt's pair are already absent.
pairAbsent(g, a) ==
    /\ ~cellAt(g, a.cell).walls[a.dir.wall]
    /\ ~cellAt(g, a.next).walls[a.dir.opposite]

\* C15: addExtraConnections makes exactly floor(MAZE_SIZE^2 * 0.1) attempts
\* in a generateMaze call, three draws each (2 attempts for size 5, 250 for
\* size 50), and an attempt whose neighbour is out of bounds or whose wall
\* pair is already absent leaves the grid as it was.
C15_Attempts ==
    /\ [](pc = "done" =>
             /\ i = (MAZE_SIZE * MAZE_SIZE) \div 10
             /\ currentSeed = FIXED_SEED + (MAZE_SIZE * MAZE_SIZE - 1) + 3 * i)
    /\ [](LET attempts(n) == (n * n) \div 10
          IN  attempts(5) = 2 /\ attempts(50) = 250)
    /\ [][pc = "inject" /\ pc' = "inject" =>
             /\ i' = i + 1
             /\ i < (MAZE_SIZE * MAZE_SIZE) \div 10
             /\ LET a == attemptAt(stream', currentSeed)
                IN  \/ ~isValidCell(a.next[1], a.next[2])
                    \/ pairAbsent(grid, a)
                    => grid' = grid]_vars

\* generateMaze has completed after an attempt that pointed out of bounds.
C15_Witness ==
    /\ pc = "done"
    /\ i > 0
    /\ LET a == attemptAt(stream, FIXED_SEED + MAZE_SIZE * MAZE_SIZE - 1)
       IN  ~isValidCell(a.next[1], a.next[2])

\* World x coordinates that map to a column outside 0 .. MAZE_SIZE - 1, on
\* both sides of the grid.
OutsideX ==
    ((-PATH_WIDTH - 1) .. -1)
        \cup ((MAZE_SIZE * PATH_WIDTH) .. (MAZE_SIZE * PATH_WIDTH + PATH_WIDTH))

\* C16: isWalkablePath has a value, and the value is false, at every world
\* point whose z is inside [0, MAZE_SIZE * PATH_WIDTH) and whose x maps to
\* a column outside 0 .. MAZE_SIZE - 1, negative x included; and that is
\* what the last such call returned.
C16_OutsideColumns ==
    /\ \A wx \in OutsideX, wz \in 0 .. (MAZE_SIZE * PATH_WIDTH - 1) :
          /\ (wx \div PATH_WIDTH) \notin Coords
          /\ isWalkablePath(grid, wx, 1, wz) = FALSE
    /\ (/\ ret.op = "isWalkablePath"
        /\ ret.z \in 0 .. (MAZE_SIZE * PATH_WIDTH - 1)
        /\ ret.x \in OutsideX) => ret.value = FALSE

\* isWalkablePath returned false for a negative x beside a visited cell of
\* column 0 of a generated maze.
C16_Witness ==
    /\ pc = "done"
    /\ ret.op = "isWalkablePath"
    /\ ret.x < 0
    /\ ret.z \in 0 .. (MAZE_SIZE * PATH_WIDTH - 1)
    /\ grid[ret.z \div PATH_WIDTH][0].visited
    /\ ret.value = FALSE

\* C17: getAllWalkableCells returns the visited cells and no other, each
\* once, by ascending z and then ascending x; every cell of a generated maze
\* is in it; and the last call returned the list for the flags as they are.
C17_WalkableCells ==
    LET w == getAllWalkableCells(grid)
    IN  /\ {w[k] : k \in DOMAIN w}
              = {[x |-> c[1], z |-> c[2]] : c \in {d \in AllCells : cellAt(grid, d).visited}}
        /\ \A j \in DOMAIN w, k \in DOMAIN w :
              j < k => \/ w[j].z < w[k].z
                       \/ w[j].z = w[k].z /\ w[j].x < w[k].x
        /\ pc = "done" => Len(w) = MAZE_SIZE * MAZE_SIZE
        /\ ret.op = "getAllWalkableCells" => ret.value = w

\* getAllWalkableCells returned all the cells of a generated maze, the
\* first row first.
C17_Witness ==
    /\ pc = "done"
    /\ ret.op = "getAllWalkableCells"
    /\ Len(ret.value) = MAZE_SIZE * MAZE_SIZE
    /\ ret.value[1] = [x |-> 0, z |-> 0]
    /\ ret.value[2] = [x |-> 1, z |-> 0]
    /\ ret.value[MAZE_SIZE + 1] = [x |-> 0, z |-> 1]

\* C18: every entity spawned at a maze position, potion or zombie, had its
\* position checked by isWalkablePath before; when the check fails nothing
\* is spawned, nothing is added to the potions array and null is returned.
C18_CheckedSpawns ==
    /\ [](\A e \in spawns :
             \E p \in checks : p.x = e.position.x /\ p.z = e.position.z)
    /\ [][(/\ ret'.op = "placeItemSafely"
           /\ checks' # checks \/ ret' # ret
           /\ ~isWalkablePath(grid, ret'.position.x, ret'.position.y, ret'.position.z))
            => spawns' = spawns /\ potions' = potions /\ ret'.value = << >>]_vars

\* C19: getCellCenter gives every cell the same y, the cached entrance
\* height plus one, and no buildMaze, getEntrance, getExit or query call
\* changes it; x and z are the middle of the cell's PATH_WIDTH x PATH_WIDTH
\* footprint, whose origin is (gx * PATH_WIDTH, gz * PATH_WIDTH); and that is
\* what the last getCellCenter call returned.
C19_CellCenter ==
    /\ [](\A gx \in Coords, gz \in Coords :
            LET c == getCellCenter(entranceWorldPosition, gx, gz)
            IN  /\ c.y = entranceWorldPosition.y + 1
                /\ c.y = getCellCenter(entranceWorldPosition, 0, 0).y
                /\ 2 * (c.x - gx * PATH_WIDTH) = PATH_WIDTH
                /\ 2 * (c.z - gz * PATH_WIDTH) = PATH_WIDTH)
    /\ [](ret.op = "getCellCenter" =>
            ret.value = getCellCenter(entranceWorldPosition, ret.x, ret.z))
    /\ [][getCellCenter(entranceWorldPosition', 0, 0).y
            = getCellCenter(entranceWorldPosition, 0, 0).y]_vars

\* getCellCenter answered for a cell other than the entrance after
\* buildMaze and getEntrance were called on the generated maze.
C19_Witness ==
    /\ pc = "done"
    /\ builds = MaxBuilds
    /\ entranceWorldPosition = getEntrance
    /\ ret.op = "getCellCenter"
    /\ <<ret.x, ret.z>> = <<MAZE_SIZE - 1, MAZE_SIZE - 1>>
    /\ ret.value = [x |-> (MAZE_SIZE - 1) * PATH_WIDTH + PATH_WIDTH \div 2,
                    y |-> 2,
                    z |-> (MAZE_SIZE - 1) * PATH_WIDTH + PATH_WIDTH \div 2]

C21_UnitInterval ==
    /\ [](ret.op = "seedRandom" =>
            /\ 0 <= ret.value.lo
            /\ ret.value.lo < ret.value.hi
            /\ ret.value.hi <= ret.value.den)
    /\ [][(ret'.op = "seedRandom" /\ currentSeed' = currentSeed + 1
             /\ currentSeed \in DOMAIN stream)
            => ret'.value = stream[currentSeed] /\ stream' = stream]_vars

\* The generator was advanced MaxAdvance times, the seed was assigned
\* again, and seedRandom returned again the value it had computed from a
\* negative sine at the first position.
C21_Witness ==
    /\ ret.op = "seedRandom"
    /\ ret.seed = FIXED_SEED
    /\ DOMAIN stream = FIXED_SEED .. (FIXED_SEED + MaxAdvance - 1)
    /\ ret.value.sine = -1
    /\ ret.value.lo = SineDen - 1

\* The indices into DIRECTIONS (top, right, bottom, left) of the in-bounds
\* unvisited neighbours of cell c, in that order.
Candidates(g, c) ==
    LET open(k) == /\ isValidCell(toward(c, DIRECTIONS[k])[1], toward(c, DIRECTIONS[k])[2])
                   /\ ~cellAt(g, toward(c, DIRECTIONS[k])).visited
    IN  SelectSeq(<<1, 2, 3, 4>>, open)

\* The wall flags in which grids g and h differ.
WallsChanged(g, h) ==
    {w \in AllCells \X {"top", "right", "bottom", "left"} :
        cellAt(g, w[1]).walls[w[2]] # cellAt(h, w[1]).walls[w[2]]}

\* The cells whose visited flag differs between grids g and h.
VisitedChanged(g, h) ==
    {c \in AllCells : cellAt(g, c).visited # cellAt(h, c).visited}

\* C27: every carve step looks at the top of the stack.  If the top has at
\* least one in-bounds unvisited neighbour, the step draws one random value,
\* takes the neighbour at index floor(rand * count) of the candidates listed
\* in top, right, bottom, left order, removes exactly the wall pair between
\* the top and that neighbour, marks that neighbour (and no other cell)
\* visited and pushes it.  Otherwise the step pops the top and changes no
\* wall and no visited flag.  So no wall toward an already visited or an
\* out-of-bounds neighbour is ever removed by the carver.
C27_CarveStep ==
    [][(pc = "carve" /\ pc' = "carve") =>
          LET top  == stack[Len(stack)]
              dirs == Candidates(grid, top)
          IN  IF Len(dirs) > 0
              THEN LET d == DIRECTIONS[dirs[drawn(stream', currentSeed, Len(dirs)) + 1]]
                       n == toward(top, d)
                   IN  /\ currentSeed' = currentSeed + 1
                       /\ WallsChanged(grid, grid') = {<<top, d.wall>>, <<n, d.opposite>>}
                       /\ ~cellAt(grid', top).walls[d.wall]
                       /\ ~cellAt(grid', n).walls[d.opposite]
                       /\ VisitedChanged(grid, grid') = {n}
                       /\ cellAt(grid', n).visited
                       /\ stack' = Append(stack, n)
              ELSE /\ stack' = SubSeq(stack, 1, Len(stack) - 1)
                   /\ grid' = grid
                   /\ currentSeed' = currentSeed]_vars

\* A carve in which a neighbour other than the first candidate was taken and
\* a dead end has been popped.
C27_Witness ==
    /\ pc = "carve"
    /\ \E p \in DOMAIN stream : stream[p].lo > 0 /\ stream[p].den > 2
    /\ Len(stack) + 1 < Cardinality({c \in AllCells : cellAt(grid, c).visited})
    /\ Len(stack) > 0

\* The carve has finished and the loop injector has not yet run: the carve
\* stack has emptied, or generateMaze has just opened the exit.
CarveFinished == (pc = "carve" /\ stack = << >>) \/ (pc = "inject" /\ i = 0)

\* The number of passages that leave cell c.
Degree(g, c) == Cardinality({k \in 1 .. 4 : passage(g, c, DIRECTIONS[k])})

\* C28: when the carve finishes, before loop injection, the open wall pairs
\* form a spanning tree of the grid: exactly N*N - 1 internal wall pairs are
\* absent (no pair is half removed), and every cell is reachable from the
\* entrance through them.  A connected graph on N*N cells with N*N - 1 edges
\* has no cycle.
C28_SpanningTree ==
    CarveFinished =>
        /\ Passages(grid) = MAZE_SIZE * MAZE_SIZE - 1
        /\ Reached(grid) = AllCells
        /\ \A c \in AllCells, k \in 1 .. 4 :
              isValidCell(toward(c, DIRECTIONS[k])[1], toward(c, DIRECTIONS[k])[2]) =>
                 (cellAt(grid, c).walls[DIRECTIONS[k].wall]
                    = cellAt(grid, toward(c, DIRECTIONS[k])).walls[DIRECTIONS[k].opposite])

\* A finished carve whose tree branches: some cell has three passages.
C28_Witness ==
    /\ pc = "inject"
    /\ i = 0
    /\ Passages(grid) = MAZE_SIZE * MAZE_SIZE - 1
    /\ Reached(grid) = AllCells
    /\ \E c \in AllCells : Degree(grid, c) >= 3

\* The cells on the carve stack.
OnStack == {stack[k] : k \in DOMAIN stack}

\* C29: depthFirstSearch terminates for every random stream.  A cell is
\* pushed only while unvisited and is visited from then on, so it is pushed
\* at most once; a popped cell is visited and off the stack, so it is never
\* pushed and never popped again.  The stack holds pairwise different visited
\* cells, never more than N*N of them, and the loop ends with the stack empty.
C29_Terminates ==
    /\ [](pc = "carve" =>
            /\ Len(stack) <= MAZE_SIZE * MAZE_SIZE
            /\ Cardinality(OnStack) = Len(stack)
            /\ \A c \in OnStack : c \in AllCells /\ cellAt(grid, c).visited)
    /\ [][(pc = "carve" /\ pc' = "carve") =>
            /\ \A c \in AllCells : cellAt(grid, c).visited => cellAt(grid', c).visited
            /\ \/ /\ Len(stack') = Len(stack) + 1
                  /\ SubSeq(stack', 1, Len(stack)) = stack
                  /\ ~cellAt(grid, stack'[Len(stack')]).visited
                  /\ cellAt(grid', stack'[Len(stack')]).visited
               \/ /\ Len(stack) > 0
                  /\ stack' = SubSeq(stack, 1, Len(stack) - 1)
                  /\ cellAt(grid', stack[Len(stack)]).visited
                  /\ stack[Len(stack)] \notin {stack'[k] : k \in DOMAIN stack'}
               \/ stack' = stack]_vars
    /\ (pc = "carve" ~> (pc = "carve" /\ stack = << >>))

\* The loop has ended: the stack is empty after every cell but the start was
\* pushed once, one draw each.
C29_Witness ==
    /\ pc = "carve"
    /\ stack = << >>
    /\ \A c \in AllCells : cellAt(grid, c).visited
    /\ currentSeed = FIXED_SEED + MAZE_SIZE * MAZE_SIZE - 1

\* The exit cell lies in the grid and is marked visited.
ExitVisited == isValidCell(exit.x, exit.y) /\ cellAt(grid, <<exit.x, exit.y>>).visited

\* C30: the connectivity repair is a no-op when the exit cell is already
\* visited: connectToExit then changes no wall and no visited flag.  During
\* generateMaze the exit cell is visited by the time the carve stack
\* empties, so the step that empties the stack does not execute connectToExit
\* and leaves the grid as it is.
C30_RepairIdle ==
    /\ [](ExitVisited => connectToExit(grid, exit) = grid)
    /\ []((pc = "carve" /\ stack = << >>) => ExitVisited)
    /\ [][(pc = "carve" /\ stack # << >> /\ stack' = << >>) =>
             (ExitVisited /\ hasPathToExit(grid, exit) /\ grid' = grid)]_vars

\* The carve stack has emptied with the exit visited, and the repair would
\* change nothing.
C30_Witness ==
    /\ pc = "carve"
    /\ stack = << >>
    /\ ExitVisited
    /\ exit # entrance
    /\ connectToExit(grid, exit) = grid

\* The elements of bag b in ascending order, each as often as b holds it.
RECURSIVE ascending(_)
ascending(b) ==
    IF BagToSet(b) = {} THEN << >>
    ELSE LET m == CHOOSE x \in BagToSet(b) : \A y \in BagToSet(b) : x <= y
         IN  <<m>> \o ascending(b (-) SetToBag({m}))

\* The completion times on the leaderboard, in its order.
boardTimes == [k \in DOMAIN leaderboardTimes |-> leaderboardTimes[k].time]

\* C22: after any sequence of goal-reached events the leaderboard holds at
\* most LEADERBOARD_SIZE entries (10 in the source), sorted ascending by
\* completion time, and their times are the LEADERBOARD_SIZE smallest
\* completion times recorded in the session (all of them when fewer were
\* recorded).
C22_Leaderboard ==
    /\ Len(leaderboardTimes) <= LEADERBOARD_SIZE
    /\ \A j, k \in DOMAIN leaderboardTimes :
          j < k => leaderboardTimes[j].time <= leaderboardTimes[k].time
    /\ boardTimes = SubSeq(ascending(recorded), 1,
                           Min(LEADERBOARD_SIZE, BagCardinality(recorded)))

\* A full leaderboard from which the slowest run, recorded first, was dropped
\* when faster runs were recorded.
C22_Witness ==
    /\ BagCardinality(recorded) > LEADERBOARD_SIZE
    /\ Len(leaderboardTimes) = LEADERBOARD_SIZE
    /\ BagIn(2 * ClockStep, recorded)
    /\ \A k \in DOMAIN leaderboardTimes : leaderboardTimes[k].time < 2 * ClockStep

\* How many of the messages msgs are a 'player-won' or a 'player-died' to p.
wonOrDied(msgs, p) ==
    Cardinality({k \in DOMAIN msgs :
                    msgs[k].to = p /\ msgs[k].type \in {"player-won", "player-died"}})

\* C23: within one run of a player, from its spacebar start on (until its
\* next start, which covers the time until its restart), at most one of
\* 'player-won' and 'player-died' is sent to it, and at most once.  Once one
\* of them was sent the timer is neither running nor counting down, so a
\* goal event after a death and an 'oxygen-depleted' message after a win
\* send nothing.  outcomes counts exactly these messages: it grows by one
\* in the steps that send one, and returns to zero only in a spacebar start.
C23_OneOutcome ==
    /\ [](\A p \in Players : outcomes[p] <= 1)
    /\ [](\A p \in DOMAIN playerTimers :
             outcomes[p] = 1 =>
                ~playerTimers[p].isRunning /\ ~playerTimers[p].countdownActive)
    /\ [][\A p \in Players :
             /\ outcomes'[p] > outcomes[p] =>
                   outcomes'[p] = outcomes[p] + 1 /\ wonOrDied(sent', p) = 1
             /\ (sent' # sent /\ wonOrDied(sent', p) > 0) =>
                   outcomes'[p] = outcomes[p] + 1
             /\ outcomes'[p] < outcomes[p] =>
                   /\ playerTimers[p].awaitingStart
                   /\ playerTimers'[p].isRunning
                   /\ sent'[1] = [to |-> p, type |-> "start-countdown",
                                  initialTime |-> 10]]_vars

\* A player that won an earlier run and died in this one, after which a
\* handler sent nothing.
C23_Witness ==
    \E p \in DOMAIN playerTimers :
        /\ outcomes[p] = 1
        /\ playerTimers[p].bestTime # null
        /\ playerTimers[p].startTime # null
        /\ playerTimers[p].endTime = null
        /\ ~playerTimers[p].isRunning
        /\ sent = << >>

\* The last handler that sent anything handled a 'player-restart' of p.
Restarted(p) == sent # << >> /\ sent[1] = [to |-> p, type |-> "reset-timer"]

\* C24: after the server has handled a 'player-restart' UI message from a
\* connected player, in whatever state the player was, the player's timer
\* state has isRunning = false, startTime = null, countdownActive = false
\* and awaitingStart = true, and its entity is spawned: a spacebar press
\* that follows starts a new run.
C24_Restart ==
    /\ [](\A p \in connectedPlayers :
             Restarted(p) =>
                /\ p \in DOMAIN playerTimers
                /\ ~playerTimers[p].isRunning
                /\ playerTimers[p].startTime = null
                /\ ~playerTimers[p].countdownActive
                /\ playerTimers[p].awaitingStart
                /\ p \in playerEntities)
    /\ [][\A p \in connectedPlayers :
             (Restarted(p) /\ sent' # << >> /\ sent'[1].to = p
                /\ sent'[1].type = "start-countdown") =>
                /\ playerTimers'[p].isRunning
                /\ playerTimers'[p].startTime = now
                /\ ~playerTimers'[p].awaitingStart]_vars

\* A restart in the middle of a run of a player that had won before: the
\* player had started, has no outcome in this run, and awaits a start.
C24_Witness ==
    \E p \in connectedPlayers :
        /\ Restarted(p)
        /\ p \in DOMAIN playerStartingBonuses
        /\ outcomes[p] = 0
        /\ playerTimers[p].awaitingStart
        /\ playerTimers[p].bestTime # null

\* Player p has a timer and it is running.
Running(timers, p) == p \in DOMAIN timers /\ timers[p].isRunning

\* C26: a player's timer becomes running only through a spacebar input
\* received while awaitingStart is true.  That transition sets awaitingStart
\* to false, isRunning and countdownActive to true, and sends
\* 'start-countdown' with initialTime 10.  A spacebar input received while
\* awaitingStart is false changes no timer state (and sends nothing).
C26_Start ==
    /\ [][\A p \in Players :
             (~Running(playerTimers, p) /\ Running(playerTimers', p)) =>
                /\ p \in DOMAIN playerTimers
                /\ playerTimers[p].awaitingStart
                /\ SpacebarInput(p)
                /\ ~playerTimers'[p].awaitingStart
                /\ playerTimers'[p].countdownActive
                /\ sent'[1] = [to |-> p, type |-> "start-countdown",
                               initialTime |-> 10]]_vars
    /\ [][\A p \in Players :
             (p \in DOMAIN playerTimers /\ ~playerTimers[p].awaitingStart
                /\ SpacebarInput(p)) =>
                (playerTimers' = playerTimers /\ sent' = << >>)]_vars
    /\ [][\A p \in Players :
             (p \in DOMAIN playerTimers /\ playerTimers[p].awaitingStart
                /\ p \in playerEntities /\ SpacebarInput(p)) =>
                Running(playerTimers', p)]_vars

\* The second run of a player has just been started with the spacebar.
C26_Witness ==
    \E p \in DOMAIN playerTimers :
        /\ sent # << >>
        /\ sent[1] = [to |-> p, type |-> "start-countdown", initialTime |-> 10]
        /\ playerTimers[p].isRunning
        /\ playerTimers[p].countdownActive
        /\ ~playerTimers[p].awaitingStart
        /\ playerTimers[p].startTime = now
        /\ playerTimers[p].bestTime # null

\* A connected player with a running timer is within collision distance of a
\* spawned zombie and its damage cooldown has elapsed.
Exposed(p) ==
    /\ p \in connectedPlayers
    /\ p \in playerEntities
    /\ Running(playerTimers, p)
    /\ withinCollision(offset[p])
    /\ now - lastDamageTime(p) > ZOMBIE_DAMAGE_COOLDOWN

\* The last handler sent p a 'zombie-damage' of ZOMBIE_DAMAGE_SECONDS.
Damaged(p) ==
    \E k \in DOMAIN sent :
        /\ sent[k].to = p
        /\ sent[k].type = "zombie-damage"
        /\ sent[k].timeReduction = ZOMBIE_DAMAGE_SECONDS

\* C25: at any time and for every history of joins and leaves, whenever a
\* connected player with a running timer is within collision distance of a
\* spawned zombie and the damage cooldown has elapsed, the server eventually
\* takes ZOMBIE_DAMAGE_SECONDS of its oxygen and sends it 'zombie-damage'
\* (unless the player stops being in that situation first).
C25_ZombieDamage ==
    \A p \in Players : [](Exposed(p) => <>(Damaged(p) \/ ~Exposed(p)))

\* The cells createPathToExit walks from (x, y): down or up the column x to
\* the exit's row, then along that row to the exit.
PathCells(x, y) ==
    {<<x, yy>> : yy \in Min(y, exit.y) .. Max(y, exit.y)}
      \cup {<<xx, exit.y>> : xx \in Min(x, exit.x) .. Max(x, exit.x)}

\* The edges of that walk, each as its upper or left cell and the direction
\* (3 = bottom, 2 = right) toward the other cell.
PathEdges(x, y) ==
    {<<<<x, yy>>, 3>> : yy \in Min(y, exit.y) .. (Max(y, exit.y) - 1)}
      \cup {<<<<xx, exit.y>>, 2>> : xx \in Min(x, exit.x) .. (Max(x, exit.x) - 1)}

\* The two wall flags of edge e.
EdgeFlags(e) ==
    { <<e[1], DIRECTIONS[e[2]].wall>>,
      <<toward(e[1], DIRECTIONS[e[2]]), DIRECTIONS[e[2]].opposite>> }

\* C31: createPathToExit started at any in-bounds cell (x, y) ends at the
\* exit cell after exactly |x - exit.x| + |y - exit.y| moves: it crosses
\* that many edges, those of the column x from y to the exit's row and then
\* those of the exit's row (vertical first, horizontal after), removes both
\* wall flags of every edge it crosses and no other wall flag, and leaves
\* every traversed cell and the exit cell visited, changing no other
\* visited flag.  On the grid the constructor left, the passages afterwards
\* are exactly those edges.
C31_PathToExit ==
    [][(ret'.op = "createPathToExit" /\ edits' = edits + 1) =>
          LET x == ret'.x
              y == ret'.y
          IN  /\ Cardinality(PathEdges(x, y)) = Abs(x - exit.x) + Abs(y - exit.y)
              /\ \A e \in PathEdges(x, y) : passage(grid', e[1], DIRECTIONS[e[2]])
              /\ WallsChanged(grid, grid') \subseteq
                    UNION {EdgeFlags(e) : e \in PathEdges(x, y)}
              /\ \A w \in WallsChanged(grid, grid') : ~cellAt(grid', w[1]).walls[w[2]]
              /\ \A c \in PathCells(x, y) : cellAt(grid', c).visited
              /\ <<exit.x, exit.y>> \in PathCells(x, y)
              /\ VisitedChanged(grid, grid') \subseteq PathCells(x, y)
              /\ grid = initializeGrid =>
                    Passages(grid') = Abs(x - exit.x) + Abs(y - exit.y)]_vars

\* A path made on the constructor's grid from a cell that shares neither row
\* nor column with the exit: one bend, vertical part first.
C31_Witness ==
    /\ ret.op = "createPathToExit"
    /\ edits = 1
    /\ pc = "idle"
    /\ ret.x = MAZE_SIZE - 1
    /\ ret.y = MAZE_SIZE - 1
    /\ Passages(grid) = 2 * (MAZE_SIZE - 1)
    /\ passage(grid, <<MAZE_SIZE - 1, 0>>, DIRECTIONS[3])
    /\ ~passage(grid, <<0, MAZE_SIZE - 1>>, DIRECTIONS[2])

\* C32: the loop injector only ever changes wall flags from present to
\* absent, always as the pair between two in-bounds adjacent cells; it
\* changes no visited flag and never sets a wall flag back to present.  It
\* does not look at visited flags: on the constructor's grid of unvisited
\* cells too, one attempt toward an in-bounds neighbour removes the pair.
C32_InjectorFrame ==
    /\ [][(pc = "inject" /\ pc' = "inject") =>
             /\ VisitedChanged(grid, grid') = {}
             /\ \A w \in WallsChanged(grid, grid') :
                   cellAt(grid, w[1]).walls[w[2]] /\ ~cellAt(grid', w[1]).walls[w[2]]
             /\ \/ WallsChanged(grid, grid') = {}
                \/ \E c \in AllCells, k \in 1 .. 4 :
                      /\ isValidCell(toward(c, DIRECTIONS[k])[1], toward(c, DIRECTIONS[k])[2])
                      /\ WallsChanged(grid, grid') = EdgeFlags(<<c, k>>)]_vars
    /\ [](pc = "idle" =>
            \A c \in AllCells, k \in 1 .. 4 :
               isValidCell(toward(c, DIRECTIONS[k])[1], toward(c, DIRECTIONS[k])[2]) =>
                  /\ ~cellAt(grid, c).visited
                  /\ passage(addConnection(grid, c[1], c[2], k - 1), c, DIRECTIONS[k])
                  /\ VisitedChanged(grid, addConnection(grid, c[1], c[2], k - 1)) = {})

\* The injector's first attempt has removed a pair: the maze has one passage
\* more than the carved tree.
C32_Witness ==
    /\ pc = "inject"
    /\ i = 1
    /\ Passages(grid) = MAZE_SIZE * MAZE_SIZE
    /\ \A c \in AllCells : cellAt(grid, c).visited

\* The draws the carver makes in one generateMaze call: one per pushed cell.
CarveDraws == MAZE_SIZE * MAZE_SIZE - 1

\* C33: during one generateMaze call the seed is reset exactly once, at the
\* start, and the carve and the loop injector consume consecutive values of
\* one stream with no reseeding in between: inside the call currentSeed
\* never goes back, the carver has made exactly N*N - 1 draws when its stack
\* empties, and the injector then makes exactly three draws per iteration,
\* 3 * floor(N*N * 0.1) in all, at the stream positions that follow.
C33_OneStream ==
    /\ [][(pc # "carve" /\ pc' = "carve") => currentSeed' = FIXED_SEED]_vars
    /\ [][(pc = "carve" /\ pc' = "carve") =>
             currentSeed' \in {currentSeed, currentSeed + 1}]_vars
    /\ [][(pc = "carve" /\ pc' = "inject") => currentSeed' = currentSeed]_vars
    /\ [][(pc = "inject" /\ pc' = "inject") => currentSeed' = currentSeed + 3]_vars
    /\ [][(pc = "inject" /\ pc' = "done") => currentSeed' = currentSeed]_vars
    /\ []((pc = "carve" /\ stack = << >>) => currentSeed = FIXED_SEED + CarveDraws)
    /\ [](pc = "inject" => currentSeed = FIXED_SEED + CarveDraws + 3 * i)
    /\ []((pc = "done" /\ ret.op = "generateMaze") =>
             currentSeed = FIXED_SEED + CarveDraws + 3 * connectionsToAdd)
    /\ [](pc \in {"carve", "inject"} =>
             FIXED_SEED .. (currentSeed - 1) \subseteq DOMAIN stream)

\* The second generateMaze call on an instance whose stream had been
\* advanced by a query has returned.
C33_Witness ==
    /\ pc = "done"
    /\ ret.op = "generateMaze"
    /\ gensLeft = 0
    /\ currentSeed = FIXED_SEED + CarveDraws + 3 * connectionsToAdd
    /\ FIXED_SEED + CarveDraws + 3 * connectionsToAdd \in DOMAIN stream

\* Block b = <<x, y, z>> stands on the given edge of the footprint of cell
\* (gridX, gridY): the footprint's first block row (top) or column (left),
\* or the first block row or column beyond it (bottom, right).
OnEdge(gridX, gridY, wall, b) ==
    LET along(c, base) == c \in (base * PATH_WIDTH) .. (base * PATH_WIDTH + PATH_WIDTH - 1)
    IN  CASE wall = "top"    -> b[3] = gridY * PATH_WIDTH /\ along(b[1], gridX)
          [] wall = "bottom" -> b[3] = (gridY + 1) * PATH_WIDTH /\ along(b[1], gridX)
          [] wall = "left"   -> b[1] = gridX * PATH_WIDTH /\ along(b[3], gridY)
          [] wall = "right"  -> b[1] = (gridX + 1) * PATH_WIDTH /\ along(b[3], gridY)

WallNames == {"top", "right", "bottom", "left"}

\* C34: when a buildMaze call returns, every present wall flag of every cell
\* has exactly PATH_WIDTH * WALL_HEIGHT blocks along that edge of the cell's
\* footprint, at heights 1..WALL_HEIGHT only and each with an id of the wall
\* palette; no block was issued for an absent flag: every block the call
\* added stands on the edge of a present flag, one found on the edge line of
\* an absent flag is a block of another, present flag, the lattice holds a
\* wall segment of an absent flag only if it held it before the call, and
\* the block registry's seed has advanced by one call per block of a present
\* flag.
C34_BuildWalls ==
    ret.op = "buildMaze" =>
      LET blocks == setBlocks(world)
          added  == setBlocks(world) \ setBlocks([world EXCEPT !.walls = built.walls])
      IN
        /\ \A x \in Coords, y \in Coords, wall \in WallNames :
              grid[y][x].walls[wall] =>
                 LET set == {b \in blocks : OnEdge(x, y, wall, b)}
                 IN  /\ wallBlocks(x, y, wall) \subseteq set
                     /\ Cardinality(wallBlocks(x, y, wall)) = PATH_WIDTH * WALL_HEIGHT
                     /\ \A b \in wallBlocks(x, y, wall) :
                           b[2] \in 1 .. WALL_HEIGHT /\ OnEdge(x, y, wall, b)
        /\ \A b \in added :
              /\ b[2] \in 1 .. WALL_HEIGHT
              /\ \E x \in Coords, y \in Coords, wall \in WallNames :
                    grid[y][x].walls[wall] /\ OnEdge(x, y, wall, b)
        /\ \A x \in Coords, y \in Coords, wall \in WallNames :
              ~grid[y][x].walls[wall] =>
                 /\ (<<<<x, y>>, wall>> \in world.walls) =
                       (<<<<x, y>>, wall>> \in built.walls)
                 /\ \A b \in added :
                       OnEdge(x, y, wall, b) =>
                          \E c \in Coords, d \in Coords, other \in WallNames :
                             /\ <<c, d, other>> # <<x, y, wall>>
                             /\ grid[d][c].walls[other]
                             /\ b \in wallBlocks(c, d, other)
        /\ world.ids \subseteq {100, 102, 103, 104}
        /\ (added # {}) => (world.ids # {})
        /\ blockSeed = blockSeedAfter(built.seed,
              Cardinality({f \in (Coords \X Coords) \X WallNames :
                              grid[f[1][2]][f[1][1]].walls[f[2]]})
                 * PATH_WIDTH * WALL_HEIGHT)

\* buildMaze has returned on a generated maze: some wall flags are present
\* and have their blocks, some are absent.
C34_Witness ==
    /\ ret.op = "buildMaze"
    /\ pc = "done"
    /\ \E x \in Coords, y \in Coords :
          /\ grid[y][x].walls.left /\ ~grid[y][x].walls.right
          /\ wallBlocks(x, y, "left") \subseteq setBlocks(world)
    /\ world.ids # {}

\* The block column (x, z) holds none of the wall blocks.
ColumnFree(blocks, x, z) == \A b \in blocks : ~(b[1] = x /\ b[3] = z)

\* C35: after buildMaze on a generated maze, in a world whose wall blocks
\* are all of this maze's walls (it held none, or those of an earlier
\* buildMaze call on the same maze), no wall block occupies a block column
\* at offsets 1..PATH_WIDTH-1 in both axes of any cell's footprint, so every
\* getCellCenter position is free of wall blocks; and between two adjacent
\* cells whose wall pair is absent the block columns at offsets
\* 1..PATH_WIDTH-1 along the shared edge are free of wall blocks.
C35_Corridors ==
    (ret.op = "buildMaze" /\ pc = "done" /\ built.walls \subseteq wallFlags(grid)) =>
      LET blocks == setBlocks(world) IN
        /\ \A x \in Coords, y \in Coords :
              /\ \A ox \in 1 .. (PATH_WIDTH - 1), oz \in 1 .. (PATH_WIDTH - 1) :
                    ColumnFree(blocks, x * PATH_WIDTH + ox, y * PATH_WIDTH + oz)
              /\ LET c == getCellCenter(entranceWorldPosition, x, y)
                 IN  /\ ColumnFree(blocks, c.x, c.z)
                     /\ <<c.x, c.y, c.z>> \notin blocks
        /\ \A x \in 0 .. (MAZE_SIZE - 2), y \in Coords :
              (~grid[y][x].walls.right /\ ~grid[y][x + 1].walls.left) =>
                 \A o \in 1 .. (PATH_WIDTH - 1) :
                    ColumnFree(blocks, (x + 1) * PATH_WIDTH, y * PATH_WIDTH + o)
        /\ \A x \in Coords, y \in 0 .. (MAZE_SIZE - 2) :
              (~grid[y][x].walls.bottom /\ ~grid[y + 1][x].walls.top) =>
                 \A o \in 1 .. (PATH_WIDTH - 1) :
                    ColumnFree(blocks, x * PATH_WIDTH + o, (y + 1) * PATH_WIDTH)

\* buildMaze has returned on a generated maze that has passages in both
\* axes and walls next to them.
C35_Witness ==
    /\ ret.op = "buildMaze"
    /\ pc = "done"
    /\ setBlocks(world) # {}
    /\ \E x \in 0 .. (MAZE_SIZE - 2), y \in Coords :
          ~grid[y][x].walls.right /\ ~grid[y][x + 1].walls.left /\ grid[y][x].walls.top
    /\ \E x \in Coords, y \in 0 .. (MAZE_SIZE - 2) :
          ~grid[y][x].walls.bottom /\ ~grid[y + 1][x].walls.top /\ grid[y][x].walls.left

\* C36: for the same seed and grid size, generateMaze of
\* maze-visualization.html leaves exactly the wall flags and visited flags,
\* for every cell, that MazeGenerator.generateMaze leaves, having consumed
\* the same stream positions.
C36_SameMaze ==
    (pc = "done" /\ html.pc = "done") =>
        /\ \A x \in Coords, y \in Coords :
              /\ html.grid[y][x].walls = grid[y][x].walls
              /\ html.grid[y][x].visited = grid[y][x].visited
        /\ html.exit = exit
        /\ html.currentSeed = currentSeed

\* Both generateMaze calls have returned, on a stream that made the carver
\* turn and the loop injector open a wall the carve had left.
C36_Witness ==
    /\ pc = "done"
    /\ html.pc = "done"
    /\ html.currentSeed = FIXED_SEED + MAZE_SIZE * MAZE_SIZE - 1 + 3 * connectionsToAdd
    /\ \E p \in DOMAIN stream : stream[p].lo # 0
    /\ Cardinality({f \in (Coords \X Coords) \X {"right", "bottom"} :
                      ~html.grid[f[1][2]][f[1][1]].walls[f[2]]})
          > MAZE_SIZE * MAZE_SIZE

\* C37: for each run of a player at most one leaderboard entry is added and
\* the player's bestTime is assigned at most once, however often and in
\* whichever order the goal entity's sensor and the standalone goal sensor
\* report the player: every entry added and every bestTime assignment is
\* counted for the run of the reported player, and neither count of a run
\* exceeds one.
C37_OneEntryPerRun ==
    /\ [](\A p \in Players : reports[p].entries <= 1 /\ reports[p].best <= 1)
    /\ [][(recorded' # recorded \/ leaderboardTimes' # leaderboardTimes) =>
             /\ BagCardinality(recorded') = BagCardinality(recorded) + 1
             /\ \E p \in Players :
                   /\ reports'[p].entries = reports[p].entries + 1
                   /\ \A q \in Players \ {p} : reports'[q] = reports[q]]_vars
    /\ [][\A p \in DOMAIN playerTimers \cap DOMAIN playerTimers' :
             playerTimers'[p].bestTime # playerTimers[p].bestTime =>
                /\ reports'[p].best = reports[p].best + 1
                /\ reports'[p].entries = reports[p].entries + 1]_vars

\* Both sensors have reported a player in one run: the first report recorded
\* the time, the second one changed nothing.
C37_Witness ==
    \E p \in playerEntities :
        /\ reports[p] = [calls |-> 2, entries |-> 1, best |-> 1]
        /\ sent = << >>
        /\ ~playerTimers[p].isRunning
        /\ Len(leaderboardTimes) = 1

\* The 'potion-collected' messages among msgs.
potionMessages(msgs) ==
    LET test(m) == m.type = "potion-collected" IN SelectSeq(msgs, test)

\* C38: each potion is collected at most once and by at most one player.
\* 'potion-collected' is sent for a potion only while the potion is active
\* and spawned and only to a player whose timer is running; after the check
\* the potion is despawned and no longer in the potion list (inactive
\* entries are removed in the same callback), and it stays so; this also
\* holds when several players are in reach in the same check.
C38_PotionOnce ==
    /\ [](\A a, b \in DOMAIN collected :
             collected[a].entity = collected[b].entity => a = b)
    /\ [](\A a \in DOMAIN collected :
             /\ collected[a].entity \notin spawns
             /\ \A k \in DOMAIN potions : potions[k].entity # collected[a].entity)
    /\ [](\A k \in DOMAIN potions : potions[k].active /\ potions[k].entity \in spawns)
    /\ [][collected' # collected =>
             /\ Len(collected') > Len(collected)
             /\ SubSeq(collected', 1, Len(collected)) = collected
             /\ Len(potionMessages(sent')) = Len(collected') - Len(collected)
             /\ \A n \in 1 .. (Len(collected') - Len(collected)) :
                   LET c == collected'[Len(collected) + n]
                   IN  /\ potionMessages(sent')[n].to = c.player
                       /\ c.player \in DOMAIN playerTimers
                       /\ playerTimers[c.player].isRunning
                       /\ c.player \in c.inReach
                       /\ \E k \in DOMAIN potions :
                             /\ potions[k].entity = c.entity
                             /\ potions[k].active
                       /\ c.entity \in spawns
                       /\ c.entity \notin spawns']_vars
    /\ [][(sent' # sent /\ potionMessages(sent') # << >>) =>
             collected' # collected]_vars

\* Two players with running timers were in reach of the same potion in one
\* check, and the potion went to one of them.
C38_Witness ==
    \E a \in DOMAIN collected :
        /\ Cardinality(collected[a].inReach) = 2
        /\ Len(potionMessages(sent)) = 1
        /\ sent[1].to = collected[a].player

\* The 'zombie-damage' messages to p among msgs.
damageMessages(msgs, p) ==
    LET test(m) == m.type = "zombie-damage" /\ m.to = p IN SelectSeq(msgs, test)

====
